---- MODULE Spec2Model ----
(***************************************************************************)
(* Application lifecycle of qutebrowser (qutebrowser/app.py), the crash    *)
(* marker file, the object registry as app.py uses it, and the download    *)
(* list adapter (qutebrowser/models/downloadmodel.py).                     *)
(*                                                                         *)
(* Handlers are functions from a world record (the program's state and the *)
(* part of the environment it touches) to a world record, so that a        *)
(* handler that calls another one (the exception hook calls shutdown,      *)
(* shutdown calls _shutdown, _shutdown calls _destroy_crashlogfile) is the *)
(* composition of their functions.  One action is one handler run by the   *)
(* interpreter: a start-up step of Application.__init__, a slot, a         *)
(* zero-delay callback taken from the run-loop's queue, a signal handler,  *)
(* the exception hook.  Zero-delay callbacks are dispatched in the order   *)
(* they were scheduled.  A Python signal handler runs between two          *)
(* bytecodes of whatever handler is executing; the first two handler       *)
(* levels only remap and enqueue, which commutes with the rest of the      *)
(* interrupted handler, so signals are delivered between handlers.         *)
(***************************************************************************)
EXTENDS Integers, Sequences, FiniteSets, TLC

\* ------------------------------------------------------------------ bounds

\* How many things happen to one run of the process that a plain run (start,
\* close the window, exit) has not: a marker left behind by an earlier run,
\* a missing stderr, a signal, a failing save handler, a failing os.remove,
\* a raised exception, a question asked, a restart, a fault, and every call
\* of the shutdown entry point.
MaxEvents == 3
\* How many downloads the backing list holds at most.
MaxDownloads == 4
\* How many mutations the download manager performs.
MaxDownloadOps == 2
\* How many arguments follow the program in sys.argv.
MaxArgs == 2
\* How many tabs are open.
MaxTabs == 2

\* The most positional arguments a start-up is given.
MaxStartupArgs == 3

\* The most runs of the program, one after the other.
MaxRuns == 3
\* How often the user asks the main window to close.
MaxCloses == 2

\* --------------------------------------------------------------- constants

SIGINT == 2
SIGTERM == 15
Signals == {SIGINT, SIGTERM}

Absent == "absent"
\* The crash marker's possible contents: "" is the empty file.
CrashData == {"fault-A", "fault-B"}
\* What this process's faulthandler writes, what an earlier or another
\* process's did.
OwnFault == "fault-A"
OtherFault == "fault-B"

NoObj == "<none>"

\* ------------------------------------------------------------------- state

VARIABLES
    phase,          \* "init" | "running" | "exited"
    initDone,       \* number of completed steps of Application.__init__
    shutting_down,  \* Application._shutting_down
    quit_status,    \* Application._quit_status
    crashdlg,       \* Application._crashdlg
    crashlogfile,   \* Application._crashlogfile: "none" | "open" | "closed"
    registry,       \* objreg's global registry: key -> object or NoObj
    queue,          \* zero-delay callbacks scheduled with QTimer.singleShot
    sigHandler,     \* the handler installed for each signal
    eventFilter,    \* the mode manager is installed as event filter
    msgHandler,     \* a Qt message handler is installed
    lwcConnected,   \* lastWindowClosed is connected to shutdown
    excepthook,     \* sys.excepthook is Application._exception_hook
    faultTarget,    \* where faulthandler writes: "initial" | "file" | "stderr" | "disabled"
    has_stderr,     \* sys.__stderr__ is not None
    marker,         \* the crash.log file: Absent or its content
    otherOwner,     \* another live instance holds the marker open
    promptActive,   \* the prompter is asking a question in a nested loop
    exitStatus,     \* the status the process ended with (-1: still alive)
    exitVia,        \* what ended it
    spawned,        \* processes started by restart
    saved,          \* persistence handlers that returned normally
    log,            \* the steps the process has executed, in order
    stage2Runs,     \* how often _shutdown was entered
    shutdownCalls,  \* how often shutdown was entered
    latched,        \* the status of the shutdown call that set the latch (-1: none)
    signalsSeen,    \* how many signals were delivered
    events,         \* how many of the MaxEvents events happened
    found,          \* what _handle_segfault found: "unchecked" | "absent" | "empty" | "data"
    fileOps,        \* what this instance did to the marker file
    argv,           \* sys.argv, the launch vector
    frozen,         \* hasattr(sys, 'frozen')
    tabs,           \* cur_url of each tab of the tabbed browser, in tab order
    popen,          \* the subprocess.Popen calls made, in order
    adapter,        \* the DownloadModel: "none" | "connected" | "KeyError"
    downloads,      \* DownloadManager.downloads
    notifications,  \* what the adapter told the view, in order
    dlOps,          \* the download manager's mutations, in order
    confirm_quit,   \* config.get('ui', 'confirm-quit')
    prompts,        \* the questions closeEvent asked, with their answers
    closeEvents,    \* what closeEvent did to each close event, in order
    stored_geometry,\* state_config['geometry']['mainwindow'] at start-up
    geometry,       \* the main window's geometry()
    runs,           \* the runs of the program that ended, in order
    relaunched      \* the processes started by subprocess.Popen, while tracked

lifecycleVars == <<phase, initDone, shutting_down, quit_status, crashdlg,
                   crashlogfile, registry, queue, sigHandler, eventFilter,
                   msgHandler, lwcConnected, excepthook, faultTarget,
                   has_stderr, marker, otherOwner, promptActive, exitStatus,
                   exitVia, spawned, saved, log, stage2Runs, shutdownCalls,
                   signalsSeen, events, found, fileOps, latched, argv, frozen,
                   tabs, popen>>

adapterVars == <<adapter, downloads, notifications, dlOps>>

geometryVars == <<stored_geometry, geometry>>

runVars == <<runs, relaunched>>

\* What the handlers of app.py leave alone: the window's policy and
\* geometry, and the other runs and processes.
windowVars == <<confirm_quit, prompts, closeEvents, stored_geometry, geometry,
                runs, relaunched>>

vars == <<phase, initDone, shutting_down, quit_status, crashdlg,
          crashlogfile, registry, queue, sigHandler, eventFilter,
          msgHandler, lwcConnected, excepthook, faultTarget,
          has_stderr, marker, otherOwner, promptActive, exitStatus,
          exitVia, spawned, saved, log, stage2Runs, shutdownCalls,
          signalsSeen, events, found, fileOps, latched, argv, frozen, tabs,
          popen, adapter, downloads, notifications, dlOps,
          confirm_quit, prompts, closeEvents, stored_geometry, geometry,
          runs, relaunched>>

\* The world record the handlers work on.  exc is the exception a handler
\* leaves to its caller ("none": it returned normally).
World ==
    [phase |-> phase, initDone |-> initDone, shutting_down |-> shutting_down,
     quit_status |-> quit_status, crashdlg |-> crashdlg,
     crashlogfile |-> crashlogfile, registry |-> registry, queue |-> queue,
     sigHandler |-> sigHandler, eventFilter |-> eventFilter,
     msgHandler |-> msgHandler, lwcConnected |-> lwcConnected,
     excepthook |-> excepthook, faultTarget |-> faultTarget,
     has_stderr |-> has_stderr, marker |-> marker, otherOwner |-> otherOwner,
     promptActive |-> promptActive, exitStatus |-> exitStatus,
     exitVia |-> exitVia, spawned |-> spawned, saved |-> saved, log |-> log,
     stage2Runs |-> stage2Runs, shutdownCalls |-> shutdownCalls,
     signalsSeen |-> signalsSeen, events |-> events, found |-> found,
     fileOps |-> fileOps, latched |-> latched, argv |-> argv,
     frozen |-> frozen, tabs |-> tabs, popen |-> popen,
     exc |-> "none"]

\* The next state is the world a handler returned.
Becomes(next) ==
    \E w \in {next} :
        /\ w.events <= MaxEvents
        /\ events' = w.events
        /\ phase' = w.phase
        /\ initDone' = w.initDone
        /\ shutting_down' = w.shutting_down
        /\ quit_status' = w.quit_status
        /\ crashdlg' = w.crashdlg
        /\ crashlogfile' = w.crashlogfile
        /\ registry' = w.registry
        /\ queue' = w.queue
        /\ sigHandler' = w.sigHandler
        /\ eventFilter' = w.eventFilter
        /\ msgHandler' = w.msgHandler
        /\ lwcConnected' = w.lwcConnected
        /\ excepthook' = w.excepthook
        /\ faultTarget' = w.faultTarget
        /\ has_stderr' = w.has_stderr
        /\ marker' = w.marker
        /\ otherOwner' = w.otherOwner
        /\ promptActive' = w.promptActive
        /\ exitStatus' = w.exitStatus
        /\ exitVia' = w.exitVia
        /\ spawned' = w.spawned
        /\ saved' = w.saved
        /\ log' = w.log
        /\ stage2Runs' = w.stage2Runs
        /\ shutdownCalls' = w.shutdownCalls
        /\ signalsSeen' = w.signalsSeen
        /\ found' = w.found
        /\ fileOps' = w.fileOps
        /\ latched' = w.latched
        /\ argv' = w.argv
        /\ frozen' = w.frozen
        /\ tabs' = w.tabs
        /\ popen' = w.popen

\* The current state is the world now.
Is(now) ==
    \E w \in {now} :
        /\ events = w.events
        /\ phase = w.phase
        /\ initDone = w.initDone
        /\ shutting_down = w.shutting_down
        /\ quit_status = w.quit_status
        /\ crashdlg = w.crashdlg
        /\ crashlogfile = w.crashlogfile
        /\ registry = w.registry
        /\ queue = w.queue
        /\ sigHandler = w.sigHandler
        /\ eventFilter = w.eventFilter
        /\ msgHandler = w.msgHandler
        /\ lwcConnected = w.lwcConnected
        /\ excepthook = w.excepthook
        /\ faultTarget = w.faultTarget
        /\ has_stderr = w.has_stderr
        /\ marker = w.marker
        /\ otherOwner = w.otherOwner
        /\ promptActive = w.promptActive
        /\ exitStatus = w.exitStatus
        /\ exitVia = w.exitVia
        /\ spawned = w.spawned
        /\ saved = w.saved
        /\ log = w.log
        /\ stage2Runs = w.stage2Runs
        /\ shutdownCalls = w.shutdownCalls
        /\ signalsSeen = w.signalsSeen
        /\ found = w.found
        /\ fileOps = w.fileOps
        /\ latched = w.latched
        /\ argv = w.argv
        /\ frozen = w.frozen
        /\ tabs = w.tabs
        /\ popen = w.popen

\* One of the MaxEvents events happens.
Event(w) == [w EXCEPT !.events = @ + 1]

Logged(w, what) == [w EXCEPT !.log = Append(@, what)]

\* QTimer.singleShot(0, functools.partial(fn, status)), called by handler by.
singleShot(w, fn, status, by) ==
    [w EXCEPT !.queue = Append(@, [fn |-> fn, status |-> status, by |-> by])]

\* The process ends.
Terminated(w, via, status) ==
    [w EXCEPT !.phase = "exited", !.exitVia = via, !.exitStatus = status]

\* ------------------------------------------------------------- main window

\* The policies config.get('ui', 'confirm-quit') can return.
Policies == {"never", "multiple-tabs", "always"}

\* A rectangle: QRect(x, y, width, height).
QRect(x, y, width, height) == <<x, y, width, height>>

\* The geometry of a widget nobody has set.
InitialGeometry == QRect(0, 0, 640, 480)

\* MainWindow._set_default_geometry
DefaultGeometry == QRect(50, 50, 800, 600)

\* The geometry the window had when an earlier run saved it.
SavedGeometry == QRect(10, 20, 1024, 768)

\* What state_config['geometry']['mainwindow'] can hold, as far as the code
\* looks at it: whether the key is there, whether the text is ASCII, whether
\* it is base64, and the bytes it stands for then.
StoredText(text, ascii, base64, bytes) ==
    [text |-> text, ascii |-> ascii, base64 |-> base64, bytes |-> bytes]

NoStoredGeometry == StoredText("<KeyError>", TRUE, FALSE, "")

StoredGeometries ==
    {NoStoredGeometry,
     StoredText("AdnQywAB", TRUE, TRUE, "geometry blob"),
     StoredText("QUJD", TRUE, TRUE, "ABC"),
     StoredText("%%%", TRUE, FALSE, ""),
     StoredText("non-ASCII", FALSE, FALSE, "")}

\* base64.b64decode(data, validate=True): ValueError for a string with a
\* character outside ASCII, binascii.Error for one that is no base64.
b64decode(data) ==
    IF ~data.ascii THEN [exc |-> "ValueError", bytes |-> ""]
    ELSE IF ~data.base64 THEN [exc |-> "binascii.Error", bytes |-> ""]
    ELSE [exc |-> "none", bytes |-> data.bytes]

\* QWidget.restoreGeometry(geom): False for bytes that are no geometry; it
\* raises KeyError when raises says so.
restoreGeometry(bytes, raises) ==
    IF raises THEN [exc |-> "KeyError", ok |-> FALSE, rect |-> <<>>]
    ELSE IF bytes = "geometry blob"
    THEN [exc |-> "none", ok |-> TRUE, rect |-> SavedGeometry]
    ELSE [exc |-> "none", ok |-> FALSE, rect |-> <<>>]

\* What MainWindow.__init__ makes of the stored geometry: the geometry the
\* window has then, the exception that leaves the constructor, and what it
\* logs.
GeometryResult(rect, exc, logged) ==
    [geometry |-> rect, exc |-> exc, logged |-> logged]

\* Lines 53-72 of MainWindow.__init__, for a window whose geometry is rect.
\* When restoreGeometry raises KeyError the handler sets the default
\* geometry, and line 70 reads ok, which was never assigned.
MainWindow_geometry(rect, data, raises) ==
    IF data = NoStoredGeometry
    THEN GeometryResult(DefaultGeometry, "none", <<>>)
    ELSE LET geom == b64decode(data)
             restored == restoreGeometry(geom.bytes, raises)
         IN CASE geom.exc = "binascii.Error" ->
                    GeometryResult(DefaultGeometry, "none",
                                   <<<<"Error while reading geometry">>>>)
              [] geom.exc = "ValueError" ->
                    GeometryResult(rect, "ValueError", <<>>)
              [] restored.exc = "KeyError" ->
                    GeometryResult(DefaultGeometry, "UnboundLocalError",
                                   <<<<"Error while restoring geometry.">>>>)
              [] ~restored.ok ->
                    GeometryResult(DefaultGeometry, "none",
                                   <<<<"Error while restoring geometry.">>>>)
              [] OTHER -> GeometryResult(restored.rect, "none", <<>>)

\* The main window before any close event, under a policy, on a first start
\* (nothing is stored); a window that was constructed has the default
\* geometry then.
WindowInit(policy) ==
    /\ confirm_quit = policy
    /\ prompts = <<>>
    /\ closeEvents = <<>>
    /\ stored_geometry = NoStoredGeometry
    /\ geometry = IF registry["main-window"] # NoObj THEN DefaultGeometry
                  ELSE InitialGeometry
    /\ runs = <<>>
    /\ relaunched = <<>>

\* MainWindow.closeEvent, were it to ask for a single tab too.
closeEvent_strict(policy, count, confirmed) ==
    IF policy = "never" \/ (policy = "multiple-tabs" /\ count < 1)
    THEN [asked |-> <<>>, result |-> "accept"]
    ELSE [asked |-> <<[count |-> count,
                       noun |-> IF count = 1 THEN "tab" ELSE "tabs",
                       confirmed |-> confirmed]>>,
          result |-> IF confirmed THEN "accept" ELSE "ignore"]

\* MainWindow.closeEvent under a policy with count tabs: the questions it
\* asks with message.ask, whose answer is confirmed, and whether it accepts
\* or ignores the event.
closeEvent(policy, count, confirmed) ==
    IF policy = "never" \/ (policy = "multiple-tabs" /\ count <= 1)
    THEN [asked |-> <<>>, result |-> "accept"]
    ELSE [asked |-> <<[count |-> count,
                       noun |-> IF count = 1 THEN "tab" ELSE "tabs",
                       confirmed |-> confirmed]>>,
          result |-> IF confirmed THEN "accept" ELSE "ignore"]

\* ----------------------------------------------------------------- strings

\* A Python string, as far as the code looks at it: its text, its first
\* character ("" for the empty string) and, for a path, os.path.basename.
Str(text, first, base) == [text |-> text, first |-> first, base |-> base]

\* arg.startswith(prefix) for a one-character prefix.
startswith(arg, prefix) == arg.first = prefix

\* os.path.basename(path)
basename(path) == path.base

\* bool(s): a string is true when it is not empty.
nonempty(s) == s.text # ""

\* The strings of the launch environment: ways to have started the program,
\* options, a start-up command, and page addresses.
Launcher == Str("/usr/bin/qutebrowser", "/", "qutebrowser")

ModuleMain == Str("/opt/qutebrowser/__main__.py", "/", "__main__.py")

Prog == Str("prog", "p", "prog")

DebugFlag == Str("--debug", "-", "")

NoWindowFlag == Str("--nowindow", "-", "")

StartupCommand == Str(":set", ":", "")

UrlX == Str("https://x", "h", "")

UrlY == Str("https://y", "h", "")

EmptyUrl == Str("", "", "")

\* config.get('general', 'startpage'), one page.
StartPage == Str("https://start", "h", "")

\* sys.executable
sys_executable == Str("/usr/bin/python3", "/", "python3")

MinusM == Str("-m", "-", "")

PackageName == Str("qutebrowser", "q", "qutebrowser")

\* A page address with a password in it, and what
\* QUrl.toString(QUrl.RemovePassword | QUrl.FullyEncoded) makes of it.
UrlWithPassword == Str("https://u:pw@z", "h", "")

UrlWithoutPassword == Str("https://u@z", "h", "")

\* An argument that is no valid address, an address typed without its
\* scheme, and the address the latter stands for.
MalformedUrl == Str("http://[", "h", "")

BareAddress == Str("y.org", "y", "")

HttpAddress == Str("http://y.org", "h", "")

\* urlutils.fuzzy_url(urlstr): the address the text stands for, or
\* FuzzyUrlError when it stands for none.
fuzzy_url(urlstr) ==
    CASE urlstr = MalformedUrl -> [exc |-> "FuzzyUrlError", url |-> EmptyUrl]
      [] urlstr = BareAddress -> [exc |-> "none", url |-> HttpAddress]
      [] OTHER -> [exc |-> "none", url |-> urlstr]

\* tab.cur_url.toString(QUrl.RemovePassword | QUrl.FullyEncoded)
url_toString(url) == IF url = UrlWithPassword THEN UrlWithoutPassword ELSE url

\* ---------------------------------------------------------------- registry

\* The keys the modelled code registers or looks up.
Keys == {"args", "app", "message-bridge", "readline-bridge", "config",
         "key-config", "state-config", "command-history", "mode-manager",
         "cookie-jar", "cache", "search-runner", "download-manager",
         "main-window", "tabbed-browser", "prompter", "status-command",
         "debug-console", "python-hack-timer"}

\* The object registered under a key: one object per subsystem.
ObjOf(key) == <<"object", key>>

EmptyRegistry == [k \in Keys |-> NoObj]

\* objreg.register(key, obj): the last registration wins.
objreg_register(reg, key, obj) == [reg EXCEPT ![key] = obj]

\* objreg.get(key, None): the object, or NoObj where objreg.get(key) raises
\* KeyError.
objreg_get(reg, key) == reg[key]

\* objreg.clear()
objreg_clear(reg) == [k \in Keys |-> NoObj]

RECURSIVE register_all(_, _)
register_all(reg, keys) ==
    IF keys = <<>> THEN reg
    ELSE register_all(objreg_register(reg, Head(keys), ObjOf(Head(keys))),
                      Tail(keys))

\* ----------------------------------------------------------- crash recorder

\* _init_crashlogfile as it would be without faulthandler.enable in line
\* 228.
_init_crashlogfile_unwatched(w) ==
    [w EXCEPT !.crashlogfile = "open",
              !.marker = "",
              !.fileOps = @ \cup {"create"}]

\* _init_crashlogfile: open(logname, 'w') creates the file or truncates it,
\* faulthandler.enable(file).
_init_crashlogfile(w) ==
    [w EXCEPT !.crashlogfile = "open",
              !.marker = "",
              !.faultTarget = "file",
              !.fileOps = @ \cup {"create"}]

\* _handle_segfault, were it to take an empty log file for its own.
_handle_segfault_taking(w, rm) ==
    IF w.marker # Absent
    THEN LET data == w.marker
             r == [w EXCEPT !.fileOps = @ \cup {"read"}]
         IN IF data # ""
            THEN LET removed ==
                         IF rm = "PermissionError"
                         THEN Event([r EXCEPT !.fileOps =
                                                  @ \cup {"remove-failed"}])
                         ELSE _init_crashlogfile(
                                  [r EXCEPT !.marker = Absent,
                                            !.fileOps = @ \cup {"remove"}])
                 IN [removed EXCEPT
                        !.crashdlg = [kind |-> "FatalCrashDialog", data |-> data],
                        !.found = "data"]
            ELSE [_init_crashlogfile(r) EXCEPT !.found = "empty"]
    ELSE [_init_crashlogfile(w) EXCEPT !.found = "absent"]

\* _handle_segfault, were the dialog about the crash shown in the else
\* branch of the try statement, after _init_crashlogfile.
_handle_segfault_silent(w, rm) ==
    IF w.marker # Absent
    THEN LET data == w.marker
             r == [w EXCEPT !.fileOps = @ \cup {"read"}]
         IN IF data # ""
            THEN IF rm = "PermissionError"
                 THEN [Event([r EXCEPT !.fileOps = @ \cup {"remove-failed"}])
                          EXCEPT !.found = "data"]
                 ELSE [_init_crashlogfile(
                           [r EXCEPT !.marker = Absent,
                                     !.fileOps = @ \cup {"remove"}])
                          EXCEPT !.crashdlg = [kind |-> "FatalCrashDialog",
                                               data |-> data],
                                 !.found = "data"]
            ELSE [r EXCEPT !.crashlogfile = "none", !.found = "empty"]
    ELSE [_init_crashlogfile(w) EXCEPT !.found = "absent"]

\* _handle_segfault as it would be if line 204 were not in the else branch
\* of the try statement: a new logfile is started even when os.remove failed.
_handle_segfault_regardless(w, rm) ==
    IF w.marker # Absent
    THEN LET data == w.marker
             r == [w EXCEPT !.fileOps = @ \cup {"read"}]
         IN IF data # ""
            THEN LET removed ==
                         IF rm = "PermissionError"
                         THEN Event([r EXCEPT !.fileOps =
                                                  @ \cup {"remove-failed"}])
                         ELSE [r EXCEPT !.marker = Absent,
                                        !.fileOps = @ \cup {"remove"}]
                 IN [_init_crashlogfile(removed) EXCEPT
                        !.crashdlg = [kind |-> "FatalCrashDialog", data |-> data],
                        !.found = "data"]
            ELSE [r EXCEPT !.crashlogfile = "none", !.found = "empty"]
    ELSE [_init_crashlogfile(w) EXCEPT !.found = "absent"]

\* _handle_segfault.  rm is what os.remove does: "ok" or "PermissionError".
_handle_segfault(w, rm) ==
    IF w.marker # Absent
    THEN LET data == w.marker
             r == [w EXCEPT !.fileOps = @ \cup {"read"}]
         IN IF data # ""
            THEN LET removed ==
                         IF rm = "PermissionError"
                         THEN Event([r EXCEPT !.fileOps =
                                                  @ \cup {"remove-failed"}])
                         ELSE _init_crashlogfile(
                                  [r EXCEPT !.marker = Absent,
                                            !.fileOps = @ \cup {"remove"}])
                 IN [removed EXCEPT
                        !.crashdlg = [kind |-> "FatalCrashDialog", data |-> data],
                        !.found = "data"]
            ELSE [r EXCEPT !.crashlogfile = "none", !.found = "empty"]
    ELSE [_init_crashlogfile(w) EXCEPT !.found = "absent"]

\* _destroy_crashlogfile as it would be without the check of lines 448-449:
\* it removes the file at the marker's path whether or not it has a handle.
_destroy_crashlogfile_unguarded(w, rm) ==
    LET off == [w EXCEPT
                   !.faultTarget = IF w.has_stderr THEN "stderr" ELSE "disabled",
                   !.crashlogfile = "closed"]
    IN IF w.marker = Absent
       THEN Logged([off EXCEPT !.fileOps = @ \cup {"remove-failed"}],
                   <<"Could not remove crash log!">>)
       ELSE IF rm = "PermissionError"
       THEN Logged(Event([off EXCEPT !.fileOps = @ \cup {"remove-failed"}]),
                   <<"Could not remove crash log!">>)
       ELSE [off EXCEPT !.marker = Absent, !.fileOps = @ \cup {"remove"}]

\* _destroy_crashlogfile as it would be without lines 458-461: the handle is
\* closed and the file stays.
_destroy_crashlogfile_keeping(w, rm) ==
    IF w.crashlogfile = "none" THEN w
    ELSE [w EXCEPT
             !.faultTarget = IF w.has_stderr THEN "stderr" ELSE "disabled",
             !.crashlogfile = "closed"]

\* _destroy_crashlogfile.  os.remove raises FileNotFoundError when the file
\* is gone and PermissionError when rm says so; both are caught and logged.
_destroy_crashlogfile(w, rm) ==
    IF w.crashlogfile = "none" THEN w
    ELSE LET off == [w EXCEPT
                        !.faultTarget = IF w.has_stderr THEN "stderr" ELSE "disabled",
                        !.crashlogfile = "closed"]
         IN IF w.marker = Absent
            THEN Logged([off EXCEPT !.fileOps = @ \cup {"remove-failed"}],
                        <<"Could not remove crash log!">>)
            ELSE IF rm = "PermissionError"
            THEN Logged(Event([off EXCEPT !.fileOps = @ \cup {"remove-failed"}]),
                        <<"Could not remove crash log!">>)
            ELSE [off EXCEPT !.marker = Absent,
                             !.fileOps = @ \cup {"remove"}]

\* ------------------------------------------------------------------ inputs

\* The persistence handlers _shutdown may put on its to_save list.
Handlers == {"config_obj.save", "key_config.save", "_save_geometry",
             "quickmarks.save", "command_history.save", "state_config.save",
             "cookie_jar.save"}

\* What a handler does when called: return, raise AttributeError, or raise
\* anything else (OSError stands for every exception that is not an
\* AttributeError).
Outcomes == {"ok", "AttributeError", "OSError"}

\* The outcomes of all handlers in which at most k of them fail.
OutcomesUpTo(k) ==
    UNION {{[h \in Handlers |-> IF h \in F THEN f[h] ELSE "ok"] :
               f \in [F -> Outcomes \ {"ok"}]} :
           F \in {G \in SUBSET Handlers : Cardinality(G) <= k}}

OutcomeMaps == OutcomesUpTo(MaxEvents)

AllOk == [h \in Handlers |-> "ok"]

\* What the exception hook collects for the crash dialog, by what can raise
\* while it does: tabbed_browser.widgets(), the cur_url of the first tab, the
\* history of the command line, get_all_objects().
RecoverySteps == {"widgets", "tab", "history", "objects"}

\* What config.get('general', 'startpage') can be: a list of addresses.
StartPageLists ==
    {<<StartPage>>, <<MalformedUrl>>, <<MalformedUrl, StartPage>>,
     <<BareAddress, MalformedUrl>>, <<>>}

\* What the environment decides during one handler: the value of the
\* auto-save-config setting, each save handler's outcome, what os.remove
\* does to the marker, the user's answer to the crash dialog, which of the
\* hook's recovery steps raise, and what subprocess.Popen does.
Inputs ==
    [auto_save : BOOLEAN, outcome : OutcomeMaps,
     rm : {"ok", "PermissionError"}, accept : BOOLEAN,
     fails : SUBSET RecoverySteps, spawn : {"ok", "OSError"},
     startpage : StartPageLists]

\* The inputs in which at most k handlers fail.
InputsUpTo ==
    [k \in 0..MaxEvents |->
        [auto_save : BOOLEAN, outcome : OutcomesUpTo(k),
         rm : {"ok", "PermissionError"}, accept : BOOLEAN, fails : {{}},
         spawn : {"ok"}, startpage : {<<StartPage>>}]]

NoInput ==
    [auto_save |-> TRUE, outcome |-> AllOk, rm |-> "ok", accept |-> FALSE,
     fails |-> {}, spawn |-> "ok", startpage |-> <<StartPage>>]

\* ---------------------------------------------------------------- shutdown

\* The to_save list of _shutdown, as handler names, in the order the code
\* appends them.
to_save(reg, auto_save) ==
    (IF auto_save
     THEN <<"config_obj.save">> \o
          (IF objreg_get(reg, "key-config") # NoObj
           THEN <<"key_config.save">> ELSE <<>>)
     ELSE <<>>)
    \o <<"_save_geometry", "quickmarks.save">>
    \o (IF objreg_get(reg, "command-history") # NoObj
        THEN <<"command_history.save">> ELSE <<>>)
    \o (IF objreg_get(reg, "state-config") # NoObj
        THEN <<"state_config.save">> ELSE <<>>)
    \o (IF objreg_get(reg, "cookie-jar") # NoObj
        THEN <<"cookie_jar.save">> ELSE <<>>)

\* What calling a handler raises.  _save_geometry looks up state-config and
\* main-window without a default, so it raises KeyError when one is missing.
handler_result(reg, h, outcome) ==
    IF /\ h = "_save_geometry"
       /\ \/ objreg_get(reg, "state-config") = NoObj
          \/ objreg_get(reg, "main-window") = NoObj
    THEN "KeyError"
    ELSE outcome[h]

\* The loop over to_save: AttributeError is caught and logged, any other
\* exception leaves the loop and _shutdown.
RECURSIVE run_saves(_, _, _)
run_saves(w, todo, outcome) ==
    IF todo = <<>> THEN w
    ELSE LET h == Head(todo)
             res == handler_result(w.registry, h, outcome)
             called == Logged(w, <<"save", h>>)
         IN CASE res = "ok" ->
                    run_saves([called EXCEPT !.saved = @ \cup {h}],
                              Tail(todo), outcome)
              [] res = "AttributeError" ->
                    run_saves(Logged(Event(called), <<"Could not save", h>>),
                              Tail(todo), outcome)
              [] res = "KeyError" -> [called EXCEPT !.exc = res]
              [] OTHER -> [Event(called) EXCEPT !.exc = res]

\* _shutdown as it would be without objreg.clear() in line 731.
_shutdown_unclear(w, status, inp) ==
    LET w0 == Logged([w EXCEPT !.stage2Runs = @ + 1], <<"_shutdown">>)
        w1 == IF objreg_get(w0.registry, "mode-manager") # NoObj
              THEN Logged([w0 EXCEPT !.eventFilter = FALSE],
                          <<"removeEventFilter">>)
              ELSE w0
        w2 == IF objreg_get(w1.registry, "tabbed-browser") # NoObj
              THEN Logged([w1 EXCEPT !.tabs = <<>>],
                          <<"tabbed-browser.shutdown">>)
              ELSE w1
        w3 == IF objreg_get(w2.registry, "config") # NoObj
              THEN run_saves(
                       Logged(w2, <<"to_save">>
                                  \o to_save(w2.registry, inp.auto_save)),
                       to_save(w2.registry, inp.auto_save), inp.outcome)
              ELSE w2
    IN IF w3.exc # "none" THEN w3
       ELSE LET w4 == _destroy_crashlogfile(
                          Logged(w3, <<"_destroy_crashlogfile">>), inp.rm)
                w5 == Logged([w4 EXCEPT !.msgHandler = FALSE],
                             <<"qInstallMessageHandler(None)">>)
                w6 == Logged(w5, <<"objreg.clear">>)
            IN singleShot(Logged(w6, <<"singleShot exit">>), "exit", status,
                          "_shutdown")

\* _shutdown, were it to schedule the exit before it clears the registry.
_shutdown_exit_first(w, status, inp) ==
    LET w0 == Logged([w EXCEPT !.stage2Runs = @ + 1], <<"_shutdown">>)
        w1 == IF objreg_get(w0.registry, "mode-manager") # NoObj
              THEN Logged([w0 EXCEPT !.eventFilter = FALSE],
                          <<"removeEventFilter">>)
              ELSE w0
        w2 == IF objreg_get(w1.registry, "tabbed-browser") # NoObj
              THEN Logged([w1 EXCEPT !.tabs = <<>>],
                          <<"tabbed-browser.shutdown">>)
              ELSE w1
        w3 == IF objreg_get(w2.registry, "config") # NoObj
              THEN run_saves(
                       Logged(w2, <<"to_save">>
                                  \o to_save(w2.registry, inp.auto_save)),
                       to_save(w2.registry, inp.auto_save), inp.outcome)
              ELSE w2
    IN IF w3.exc # "none" THEN w3
       ELSE LET w4 == _destroy_crashlogfile(
                          Logged(w3, <<"_destroy_crashlogfile">>), inp.rm)
                w5 == Logged([w4 EXCEPT !.msgHandler = FALSE],
                             <<"qInstallMessageHandler(None)">>)
                w6 == singleShot(Logged(w5, <<"singleShot exit">>), "exit",
                                 status, "_shutdown")
            IN Logged([w6 EXCEPT !.registry = objreg_clear(@)],
                      <<"objreg.clear">>)

\* _shutdown, the second stage.
_shutdown(w, status, inp) ==
    LET w0 == Logged([w EXCEPT !.stage2Runs = @ + 1], <<"_shutdown">>)
        w1 == IF objreg_get(w0.registry, "mode-manager") # NoObj
              THEN Logged([w0 EXCEPT !.eventFilter = FALSE],
                          <<"removeEventFilter">>)
              ELSE w0
        w2 == IF objreg_get(w1.registry, "tabbed-browser") # NoObj
              THEN Logged([w1 EXCEPT !.tabs = <<>>],
                          <<"tabbed-browser.shutdown">>)
              ELSE w1
        w3 == IF objreg_get(w2.registry, "config") # NoObj
              THEN run_saves(
                       Logged(w2, <<"to_save">>
                                  \o to_save(w2.registry, inp.auto_save)),
                       to_save(w2.registry, inp.auto_save), inp.outcome)
              ELSE w2
    IN IF w3.exc # "none" THEN w3
       ELSE LET w4 == _destroy_crashlogfile(
                          Logged(w3, <<"_destroy_crashlogfile">>), inp.rm)
                w5 == Logged([w4 EXCEPT !.msgHandler = FALSE],
                             <<"qInstallMessageHandler(None)">>)
                w6 == Logged([w5 EXCEPT !.registry = objreg_clear(@)],
                             <<"objreg.clear">>)
            IN singleShot(Logged(w6, <<"singleShot exit">>), "exit", status,
                          "_shutdown")

\* shutdown as it would be without the check of _shutting_down in lines
\* 640-641.
shutdown_unlatched(w, status, inp) ==
    LET first == Logged([Event(w) EXCEPT !.shutdownCalls = @ + 1,
                                         !.shutting_down = TRUE,
                                         !.latched = status],
                        <<"shutdown">>)
    IN IF /\ objreg_get(first.registry, "prompter") # NoObj
          /\ first.promptActive
       THEN singleShot(Logged([first EXCEPT !.promptActive = FALSE],
                              <<"deferred">>),
                       "_shutdown", status, "shutdown")
       ELSE _shutdown(first, status, inp)

\* shutdown, were it to clear _shutting_down again when the second stage
\* raises.
shutdown_resetting(w, status, inp) ==
    LET called == Event([w EXCEPT !.shutdownCalls = @ + 1])
    IN IF w.shutting_down THEN called
       ELSE LET first == Logged([called EXCEPT !.shutting_down = TRUE,
                                               !.latched = status],
                                <<"shutdown">>)
            IN IF /\ objreg_get(first.registry, "prompter") # NoObj
                  /\ first.promptActive
               THEN singleShot(
                        Logged([first EXCEPT !.promptActive = FALSE],
                               <<"deferred">>),
                        "_shutdown", status, "shutdown")
               ELSE LET done == _shutdown(first, status, inp)
                    IN IF done.exc # "none"
                       THEN [done EXCEPT !.shutting_down = FALSE]
                       ELSE done

\* shutdown, the first stage.  prompter.shutdown() ends an active question
\* and says whether there was one.
shutdown(w, status, inp) ==
    LET called == Event([w EXCEPT !.shutdownCalls = @ + 1])
    IN IF w.shutting_down THEN called
       ELSE LET first == Logged([called EXCEPT !.shutting_down = TRUE,
                                               !.latched = status],
                                <<"shutdown">>)
            IN IF /\ objreg_get(first.registry, "prompter") # NoObj
                  /\ first.promptActive
               THEN singleShot(
                        Logged([first EXCEPT !.promptActive = FALSE],
                               <<"deferred">>),
                        "_shutdown", status, "shutdown")
               ELSE _shutdown(first, status, inp)

\* The addresses of the tabs, in tab order, without the empty ones: the
\* loop of restart (lines 528-533) and of _recover_pages (lines 425-432).
page_list(tab_urls) ==
    LET addr == [n \in 1..Len(tab_urls) |-> url_toString(tab_urls[n])]
    IN SelectSeq(addr, nonempty)

\* _recover_pages: no page when the tabbed browser is not registered; a tab
\* whose cur_url raises is left out; widgets() raising leaves _recover_pages.
_recover_pages(w, fails) ==
    IF objreg_get(w.registry, "tabbed-browser") = NoObj
    THEN [exc |-> "none", pages |-> <<>>, errors |-> <<>>]
    ELSE IF "widgets" \in fails
    THEN [exc |-> "RuntimeError", pages |-> <<>>, errors |-> <<>>]
    ELSE IF "tab" \in fails /\ w.tabs # <<>>
    THEN [exc |-> "none", pages |-> page_list(Tail(w.tabs)),
          errors |-> <<<<"Error while recovering tab">>>>]
    ELSE [exc |-> "none", pages |-> page_list(w.tabs), errors |-> <<>>]

\* The commands the user has run in the command line, oldest first.
CommandHistory == <<":open", ":back", ":forward", ":reload", ":yank", ":set">>

\* history[-5:]
last_five(history) ==
    SubSeq(history, IF Len(history) > 5 THEN Len(history) - 4 ELSE 1,
           Len(history))

\* What get_all_objects returns.
ObjectDump == "objects"

\* The hook's collecting for the crash dialog, were a failure of
\* _recover_pages to leave the pages of the tabs in place.
crash_info_keeping(w, fails) ==
    LET rec == _recover_pages(w, fails)
        no_history == \/ objreg_get(w.registry, "status-command") = NoObj
                      \/ "history" \in fails
    IN [pages |-> IF rec.exc # "none" THEN page_list(w.tabs) ELSE rec.pages,
        history |-> IF no_history THEN <<>> ELSE last_five(CommandHistory),
        objects |-> IF "objects" \in fails THEN "" ELSE ObjectDump,
        errors |->
            rec.errors
            \o (IF rec.exc # "none"
                THEN <<<<"Error while recovering pages">>>> ELSE <<>>)
            \o (IF no_history
                THEN <<<<"Error while getting history">>>> ELSE <<>>)
            \o (IF "objects" \in fails
                THEN <<<<"Error while getting objects">>>> ELSE <<>>)]

\* What the hook collects for the crash dialog (lines 486-502): the pages,
\* the last five commands and the object dump, each replaced by an empty
\* value when collecting it raises.
crash_info(w, fails) ==
    LET rec == _recover_pages(w, fails)
        no_history == \/ objreg_get(w.registry, "status-command") = NoObj
                      \/ "history" \in fails
    IN [pages |-> IF rec.exc # "none" THEN <<>> ELSE rec.pages,
        history |-> IF no_history THEN <<>> ELSE last_five(CommandHistory),
        objects |-> IF "objects" \in fails THEN "" ELSE ObjectDump,
        errors |->
            rec.errors
            \o (IF rec.exc # "none"
                THEN <<<<"Error while recovering pages">>>> ELSE <<>>)
            \o (IF no_history
                THEN <<<<"Error while getting history">>>> ELSE <<>>)
            \o (IF "objects" \in fails
                THEN <<<<"Error while getting objects">>>> ELSE <<>>)]

\* The pages argument of restart: None, or a list.
NoPages == [given |-> FALSE, list |-> <<>>]

Pages(list) == [given |-> TRUE, list |-> list]

\* restart, were it to carry over every argument of sys.argv[1:].
restart_args_all(sys_argv, is_frozen, pages) ==
    LET via_script == basename(sys_argv[1]) = "qutebrowser"
        args == IF via_script THEN <<sys_argv[1]>>
                ELSE IF is_frozen THEN <<sys_executable>>
                ELSE <<sys_executable, MinusM, PackageName>>
    IN [args |-> args \o Tail(sys_argv) \o pages,
        cwd |-> IF via_script THEN "None"
                ELSE IF is_frozen THEN "dirname(sys.executable)"
                ELSE "dirname(qutebrowser.__file__)/.."]

\* The arguments restart gives to subprocess.Popen (lines 538-556): how the
\* program was started, the arguments of sys.argv[1:] that begin with '-',
\* and the pages; and the working directory.
restart_args(sys_argv, is_frozen, pages) ==
    LET via_script == basename(sys_argv[1]) = "qutebrowser"
        is_option(arg) == startswith(arg, "-")
        args == IF via_script THEN <<sys_argv[1]>>
                ELSE IF is_frozen THEN <<sys_executable>>
                ELSE <<sys_executable, MinusM, PackageName>>
    IN [args |-> args \o SelectSeq(Tail(sys_argv), is_option) \o pages,
        cwd |-> IF via_script THEN "None"
                ELSE IF is_frozen THEN "dirname(sys.executable)"
                ELSE "dirname(qutebrowser.__file__)/.."]

\* restart, were it to shut down whatever its shutdown argument is.
restart_always_shutdown(w, do_shutdown, pages, inp) ==
    IF ~pages.given /\ objreg_get(w.registry, "tabbed-browser") = NoObj
    THEN [w EXCEPT !.exc = "KeyError"]
    ELSE LET list == IF pages.given THEN pages.list ELSE page_list(w.tabs)
             called == Event([w EXCEPT
                                 !.popen = Append(@, restart_args(
                                               w.argv, w.frozen, list))])
         IN IF inp.spawn # "ok"
            THEN [Logged(called, <<"Popen failed">>) EXCEPT !.exc = inp.spawn]
            ELSE shutdown(Logged([called EXCEPT !.spawned = @ + 1],
                                 <<"Popen">>),
                          0, inp)

\* restart, were it to shut down before it starts the new process.
restart_shutdown_first(w, do_shutdown, pages, inp) ==
    IF ~pages.given /\ objreg_get(w.registry, "tabbed-browser") = NoObj
    THEN [w EXCEPT !.exc = "KeyError"]
    ELSE LET list == IF pages.given THEN pages.list ELSE page_list(w.tabs)
             down == IF do_shutdown /\ inp.spawn = "ok"
                     THEN shutdown(w, 0, inp) ELSE w
             called == Event([down EXCEPT
                                 !.popen = Append(@, restart_args(
                                               w.argv, w.frozen, list))])
             started == Logged([called EXCEPT !.spawned = @ + 1],
                               <<"Popen">>)
         IN IF inp.spawn # "ok"
            THEN [Logged(called, <<"Popen failed">>) EXCEPT !.exc = inp.spawn]
            ELSE started

\* restart.  With pages=None the open pages are read from the tabbed
\* browser, which raises KeyError when it is not registered.  An exception
\* of subprocess.Popen leaves restart.
restart(w, do_shutdown, pages, inp) ==
    IF ~pages.given /\ objreg_get(w.registry, "tabbed-browser") = NoObj
    THEN [w EXCEPT !.exc = "KeyError"]
    ELSE LET list == IF pages.given THEN pages.list ELSE page_list(w.tabs)
             called == Event([w EXCEPT
                                 !.popen = Append(@, restart_args(
                                               w.argv, w.frozen, list))])
             started == Logged([called EXCEPT !.spawned = @ + 1],
                               <<"Popen">>)
         IN IF inp.spawn # "ok"
            THEN [Logged(called, <<"Popen failed">>) EXCEPT !.exc = inp.spawn]
            ELSE IF do_shutdown THEN shutdown(started, 0, inp) ELSE started

\* _exception_hook, were it to restart with shutdown=True.
_exception_hook_graceful(w, kind, inp) ==
    IF kind = "benign"
    THEN LET r == shutdown(Logged(w, <<"excepthook", kind>>), 0, inp)
         IN IF r.exc # "none"
            THEN LET q == Logged([r EXCEPT !.exc = "none"], <<"quit">>)
                 IN IF q.phase = "running"
                    THEN Terminated(q, "QApplication.quit", 0)
                    ELSE q
            ELSE r
    ELSE LET info == crash_info(w, inp.fails)
             w0 == [Logged(Event(w), <<"excepthook", kind>>) EXCEPT
                       !.log = @ \o info.errors]
             w1 == Logged([w0 EXCEPT !.quit_status.crash = FALSE,
                                     !.lwcConnected = FALSE,
                                     !.crashdlg =
                                         [kind |-> "ExceptionCrashDialog",
                                          data |-> "",
                                          pages |-> info.pages,
                                          history |-> info.history,
                                          objects |-> info.objects]],
                          <<"crash dialog">>)
             w2 == IF inp.accept
                   THEN restart(Logged(w1, <<"dialog accepted">>), TRUE,
                                Pages(info.pages), inp)
                   ELSE Logged(w1, <<"dialog rejected">>)
             w3 == _destroy_crashlogfile([w2 EXCEPT !.msgHandler = FALSE],
                                         inp.rm)
         IN IF w2.exc # "none"
            THEN Logged([w2 EXCEPT !.exc = "none"],
                        <<"Error in sys.excepthook">>)
            ELSE Terminated(w3, "sys.exit", 1)

\* _exception_hook, were it not to quit when shutdown() raises.
_exception_hook_no_quit(w, kind, inp) ==
    IF kind = "benign"
    THEN LET r == shutdown(Logged(w, <<"excepthook", kind>>), 0, inp)
         IN IF r.exc # "none"
            THEN [r EXCEPT !.exc = "none"]
            ELSE r
    ELSE LET info == crash_info(w, inp.fails)
             w0 == [Logged(Event(w), <<"excepthook", kind>>) EXCEPT
                       !.log = @ \o info.errors]
             w1 == Logged([w0 EXCEPT !.quit_status.crash = FALSE,
                                     !.lwcConnected = FALSE,
                                     !.crashdlg =
                                         [kind |-> "ExceptionCrashDialog",
                                          data |-> "",
                                          pages |-> info.pages,
                                          history |-> info.history,
                                          objects |-> info.objects]],
                          <<"crash dialog">>)
             w2 == IF inp.accept
                   THEN restart(Logged(w1, <<"dialog accepted">>), FALSE,
                                Pages(info.pages), inp)
                   ELSE Logged(w1, <<"dialog rejected">>)
             w3 == _destroy_crashlogfile([w2 EXCEPT !.msgHandler = FALSE],
                                         inp.rm)
         IN IF w2.exc # "none"
            THEN Logged([w2 EXCEPT !.exc = "none"],
                        <<"Error in sys.excepthook">>)
            ELSE Terminated(w3, "sys.exit", 1)

\* _exception_hook.  kind "benign" is bdb.BdbQuit or an exception that is no
\* Exception subclass; everything else is "genuine".  An exception that
\* leaves the hook is printed by the interpreter, and whoever called the
\* hook goes on.
_exception_hook(w, kind, inp) ==
    IF kind = "benign"
    THEN LET r == shutdown(Logged(w, <<"excepthook", kind>>), 0, inp)
         IN IF r.exc # "none"
            THEN LET q == Logged([r EXCEPT !.exc = "none"], <<"quit">>)
                 IN IF q.phase = "running"
                    THEN Terminated(q, "QApplication.quit", 0)
                    ELSE q
            ELSE r
    ELSE LET info == crash_info(w, inp.fails)
             w0 == [Logged(Event(w), <<"excepthook", kind>>) EXCEPT
                       !.log = @ \o info.errors]
             w1 == Logged([w0 EXCEPT !.quit_status.crash = FALSE,
                                     !.lwcConnected = FALSE,
                                     !.crashdlg =
                                         [kind |-> "ExceptionCrashDialog",
                                          data |-> "",
                                          pages |-> info.pages,
                                          history |-> info.history,
                                          objects |-> info.objects]],
                          <<"crash dialog">>)
             w2 == IF inp.accept
                   THEN restart(Logged(w1, <<"dialog accepted">>), FALSE,
                                Pages(info.pages), inp)
                   ELSE Logged(w1, <<"dialog rejected">>)
             w3 == _destroy_crashlogfile([w2 EXCEPT !.msgHandler = FALSE],
                                         inp.rm)
         IN IF w2.exc # "none"
            THEN Logged([w2 EXCEPT !.exc = "none"],
                        <<"Error in sys.excepthook">>)
            ELSE Terminated(w3, "sys.exit", 1)

\* A slot or callback called by Qt: an exception it raises reaches
\* sys.excepthook.
in_slot(w, inp) ==
    IF w.exc = "none" THEN w
    ELSE _exception_hook([w EXCEPT !.exc = "none"], "genuine", inp)

\* ----------------------------------------------------------------- signals

BothRemapped(to) == [sig \in Signals |-> to]

\* The name of a signal.
SigName(signum) == IF signum = SIGINT THEN "SIGINT" ELSE "SIGTERM"

\* interrupt, were it to pass the signal number on as the status.
interrupt_plain(w, signum) ==
    singleShot(Logged([w EXCEPT !.sigHandler =
                                    BothRemapped("interrupt_forcefully")],
                      <<"interrupt">>),
               "shutdown", signum, "interrupt")

\* interrupt, were it to call shutdown itself.
interrupt_direct(w, signum) ==
    shutdown(Logged([w EXCEPT !.sigHandler =
                                  BothRemapped("interrupt_forcefully")],
                    <<"interrupt">>),
             128 + signum, NoInput)

\* interrupt: the first-level handler.
interrupt(w, signum) ==
    singleShot(Logged([w EXCEPT !.sigHandler =
                                    BothRemapped("interrupt_forcefully")],
                      <<"interrupt">>),
               "shutdown", 128 + signum, "interrupt")

\* interrupt_forcefully, were it to remap only the signal it was called for.
interrupt_forcefully_one(w, signum) ==
    singleShot(Logged([w EXCEPT !.sigHandler[signum] =
                                    "interrupt_really_forcefully"],
                      <<"interrupt_forcefully">>),
               "exit", 128 + signum, "interrupt_forcefully")

\* interrupt_forcefully: the second-level handler.
interrupt_forcefully(w, signum) ==
    singleShot(Logged([w EXCEPT !.sigHandler =
                                    BothRemapped("interrupt_really_forcefully")],
                      <<"interrupt_forcefully">>),
               "exit", 128 + signum, "interrupt_forcefully")

\* interrupt_really_forcefully: the third-level handler.
interrupt_really_forcefully(w, signum) ==
    Terminated(Logged(w, <<"interrupt_really_forcefully">>),
               "sys.exit", 128 + signum)

\* exit: QApplication.exit(status) ends the run-loop with that status.  It
\* was scheduled by handler by: the exit of _shutdown is the scheduled exit,
\* that of interrupt_forcefully the forced exit.
exit(w, status, by) ==
    Terminated(Logged(w, <<"QApplication.exit">>),
               IF by = "interrupt_forcefully" THEN "forced exit"
               ELSE "scheduled exit",
               status)

\* ---------------------------------------------------------------- start-up

\* Application.__init__, were it to install the hook after the modules.
InitSteps_hook_last ==
    <<"QApplication", "args", "app",
      "message-bridge", "readline-bridge", "config", "crashlog", "modes",
      "websettings", "quickmarks", "proxy", "userscripts", "utilcmds",
      "cookies", "cache", "commands", "search", "downloads", "main-window",
      "debug-console", "excepthook",
      "eventfilter", "connect_signals", "enter-mode", "show", "python_hacks">>

\* The steps of Application.__init__ and _init_modules, in their order.
InitSteps ==
    <<"QApplication", "excepthook", "args", "app",
      "message-bridge", "readline-bridge", "config", "crashlog", "modes",
      "websettings", "quickmarks", "proxy", "userscripts", "utilcmds",
      "cookies", "cache", "commands", "search", "downloads", "main-window",
      "debug-console",
      "eventfilter", "connect_signals", "enter-mode", "show", "python_hacks">>

NSteps == Len(InitSteps)

\* The keys app.py and MainWindow.__init__ register in a step.
registers(step) ==
    CASE step = "args" -> <<"args">>
      [] step = "app" -> <<"app">>
      [] step = "message-bridge" -> <<"message-bridge">>
      [] step = "readline-bridge" -> <<"readline-bridge">>
      [] step = "cookies" -> <<"cookie-jar">>
      [] step = "cache" -> <<"cache">>
      [] step = "search" -> <<"search-runner">>
      [] step = "downloads" -> <<"download-manager">>
      [] step = "main-window" -> <<"tabbed-browser", "main-window">>
      [] step = "debug-console" -> <<"debug-console">>
      [] step = "python_hacks" -> <<"python-hack-timer">>
      [] OTHER -> <<>>

\* The keys the collaborators register while a step constructs them:
\* config.init the configuration objects, modeman.init the mode manager,
\* the main window's status bar the prompter and the command line.
registers_ext(step) ==
    CASE step = "config" -> <<"config", "key-config", "state-config",
                              "command-history">>
      [] step = "modes" -> <<"mode-manager">>
      [] step = "main-window" -> <<"prompter", "status-command">>
      [] OTHER -> <<>>

\* args.nowindow: --nowindow is among the arguments.
nowindow(sys_argv) ==
    \E n \in 2..Len(sys_argv) : sys_argv[n] = NoWindowFlag

\* One step of Application.__init__.  version is args.version, rm what
\* os.remove does in _handle_segfault.
init_step(w, step, version, rm) ==
    LET w0 == Logged([w EXCEPT !.initDone = @ + 1,
                               !.registry = register_all(
                                   register_all(@, registers_ext(step)),
                                   registers(step))],
                     <<"init", step>>)
        w1 == CASE step = "excepthook" -> [w0 EXCEPT !.excepthook = TRUE]
                [] step = "args" ->
                       singleShot(w0, "_process_init_args", 0, "__init__")
                [] step = "app" ->
                       IF version THEN Terminated(Event(w0), "sys.exit", 0)
                       ELSE w0
                [] step = "crashlog" -> _handle_segfault(w0, rm)
                [] step = "eventfilter" -> [w0 EXCEPT !.eventFilter = TRUE]
                [] step = "connect_signals" -> [w0 EXCEPT !.lwcConnected = TRUE]
                [] step = "show" ->
                       IF nowindow(w0.argv) THEN w0
                       ELSE Logged(w0, <<"main-window.show">>)
                [] step = "python_hacks" ->
                       [w0 EXCEPT !.sigHandler = BothRemapped("interrupt")]
                [] OTHER -> w0
    IN IF w1.phase = "init" /\ w1.initDone = NSteps
       THEN [w1 EXCEPT !.phase = "running"]
       ELSE w1

\* A signal delivered while Python's default handlers are installed: SIGINT
\* raises KeyboardInterrupt in Application.__init__, which nobody catches, so
\* the interpreter calls sys.excepthook and exits; SIGTERM kills the process.
default_handler(w, signum, inp) ==
    IF signum = SIGINT
    THEN Terminated(IF w.excepthook THEN _exception_hook(w, "benign", inp)
                    ELSE w,
                    "uncaught exception", 1)
    ELSE Terminated(w, "killed", 128 + signum)

\* The handler installed for the signal runs.
deliver(w, signum, inp) ==
    LET seen == Logged(Event([w EXCEPT !.signalsSeen = @ + 1]),
                       <<"signal", SigName(signum)>>)
        h == w.sigHandler[signum]
    IN CASE h = "interrupt" -> interrupt(seen, signum)
         [] h = "interrupt_forcefully" -> interrupt_forcefully(seen, signum)
         [] h = "interrupt_really_forcefully" ->
                interrupt_really_forcefully(seen, signum)
         [] OTHER -> default_handler(seen, signum, inp)

\* The loop of lines 245-257 over the positional arguments: one that begins
\* with a colon is a command, which the command runner runs; any other is
\* an address, opened in a new tab unless fuzzy_url raises FuzzyUrlError,
\* and then message.error shows the argument.
RECURSIVE startup_args(_, _)
startup_args(w, cmds) ==
    IF cmds = <<>> THEN w
    ELSE LET cmd == Head(cmds)
             url == fuzzy_url(cmd)
             done == CASE startswith(cmd, ":") -> w
                       [] url.exc # "none" ->
                              Logged(w, <<"message.error",
                                          "Error in startup argument",
                                          cmd.text>>)
                       [] OTHER -> [w EXCEPT !.tabs = Append(@, url.url)]
         IN startup_args(done, Tail(cmds))

\* The loop of lines 261-267 over the start pages of the configuration.
RECURSIVE open_startpages(_, _)
open_startpages(w, urlstrs) ==
    IF urlstrs = <<>> THEN w
    ELSE LET url == fuzzy_url(Head(urlstrs))
             done == IF url.exc # "none"
                     THEN Logged(w, <<"message.error",
                                      "Error when opening startpage",
                                      Head(urlstrs).text>>)
                     ELSE [w EXCEPT !.tabs = Append(@, url.url)]
         IN open_startpages(done, Tail(urlstrs))

\* _process_init_args, were its first loop to end at an argument that is
\* no address.
_process_init_args_stopping(w, inp) ==
    IF objreg_get(w.registry, "tabbed-browser") = NoObj
    THEN [w EXCEPT !.exc = "KeyError"]
    ELSE LET is_positional(arg) == ~startswith(arg, "-")
             command == SelectSeq(Tail(w.argv), is_positional)
             bad == {n \in 1..Len(command) :
                        /\ ~startswith(command[n], ":")
                        /\ fuzzy_url(command[n]).exc # "none"}
             upto == IF bad = {} THEN Len(command)
                     ELSE CHOOSE n \in bad : \A m \in bad : n <= m
             opened == startup_args(w, SubSeq(command, 1, upto))
         IN IF opened.tabs = <<>>
            THEN open_startpages(opened, inp.startpage)
            ELSE opened

\* _process_init_args.  args.command are the positional arguments, those of
\* sys.argv[1:] that are no options; the start pages are opened when there
\* is no tab after them.  The lookup of the tabbed browser raises KeyError
\* when it is not registered.
_process_init_args(w, inp) ==
    IF objreg_get(w.registry, "tabbed-browser") = NoObj
    THEN [w EXCEPT !.exc = "KeyError"]
    ELSE LET is_positional(arg) == ~startswith(arg, "-")
             command == SelectSeq(Tail(w.argv), is_positional)
             opened == startup_args(w, command)
         IN IF opened.tabs = <<>>
            THEN open_startpages(opened, inp.startpage)
            ELSE opened

\* The run-loop calls the callback at the head of its queue.
dispatch(w, inp) ==
    LET cb == Head(w.queue)
        rest == Logged([w EXCEPT !.queue = Tail(@)], <<"run", cb.fn, cb.by>>)
    IN CASE cb.fn = "shutdown" -> in_slot(shutdown(rest, cb.status, inp), inp)
         [] cb.fn = "_shutdown" -> in_slot(_shutdown(rest, cb.status, inp), inp)
         [] cb.fn = "exit" -> exit(rest, cb.status, cb.by)
         [] OTHER -> in_slot(_process_init_args(rest, inp), inp)

\* ------------------------------------------------------------------ actions

InList(x, list) == \E n \in 1..Len(list) : list[n] = x

\* An input that differs from another one only in what no handler reads in
\* the current state adds nothing: a failure of a handler that is not on the
\* to_save list, an os.remove result when there is no handle or no file, an
\* answer to a crash dialog that cannot come up.
Relevant(i) ==
    /\ \A h \in Handlers :
          i.outcome[h] # "ok" =>
              /\ objreg_get(registry, "config") # NoObj
              /\ InList(h, to_save(registry, i.auto_save))
    /\ LET todo == to_save(registry, i.auto_save)
       IN \A m, n \in 1..Len(todo) :
             m < n /\ i.outcome[todo[m]] = "OSError" =>
                 i.outcome[todo[n]] = "ok"
    /\ ~i.auto_save => objreg_get(registry, "config") # NoObj
    /\ i.rm = "PermissionError" => crashlogfile # "none" /\ marker # Absent
    /\ i.accept =>
          \/ \E h \in Handlers : i.outcome[h] = "OSError"
          \/ \E k \in {"state-config", "main-window", "tabbed-browser"} :
                objreg_get(registry, k) = NoObj

\* The inputs a handler can depend on: none once the latch is set and no
\* second stage is about to run; otherwise those the events left allow,
\* when the handler counts for used events before it calls a save handler.
InputsWhen(needed, used) ==
    IF needed
    THEN {i \in InputsUpTo[IF MaxEvents - events > used
                           THEN MaxEvents - events - used ELSE 0] :
             Relevant(i)}
    ELSE {NoInput}

HookInputs ==
    {i \in InputsUpTo[0] : /\ i.auto_save
                           /\ i.rm = "PermissionError" =>
                                  crashlogfile # "none" /\ marker # Absent}

\* The inputs of the hook when its recovery steps can raise: a step that is
\* not reached (the tabbed browser or the command line is not registered,
\* there is no tab) cannot.
RecoveryInputs ==
    {i \in [auto_save : {TRUE}, outcome : {AllOk},
            rm : {"ok", "PermissionError"}, accept : BOOLEAN,
            fails : SUBSET RecoverySteps, spawn : {"ok"},
            startpage : {<<StartPage>>}] :
        /\ i.rm = "PermissionError" => crashlogfile # "none" /\ marker # Absent
        /\ "widgets" \in i.fails =>
               objreg_get(registry, "tabbed-browser") # NoObj
        /\ "tab" \in i.fails =>
               /\ objreg_get(registry, "tabbed-browser") # NoObj
               /\ "widgets" \notin i.fails
               /\ tabs # <<>>
        /\ "history" \in i.fails =>
               objreg_get(registry, "status-command") # NoObj}

\* The process when Application.__init__ begins: lines 70-78 have set the
\* attributes.  The environment is the marker file mk, whether another
\* instance owns it, and whether there is a stderr.
StartWorld(se, mk, oo) ==
    [phase |-> "init", initDone |-> 0, shutting_down |-> FALSE,
     quit_status |-> [crash |-> TRUE, tabs |-> FALSE, main |-> FALSE],
     crashdlg |-> [kind |-> "none", data |-> ""],
     crashlogfile |-> "none", registry |-> EmptyRegistry, queue |-> <<>>,
     sigHandler |-> BothRemapped("default"), eventFilter |-> FALSE,
     msgHandler |-> TRUE, lwcConnected |-> FALSE, excepthook |-> FALSE,
     faultTarget |-> "initial", has_stderr |-> se, marker |-> mk,
     otherOwner |-> oo, promptActive |-> FALSE, exitStatus |-> -1,
     exitVia |-> "none", spawned |-> 0, saved |-> {}, log |-> <<>>,
     stage2Runs |-> 0, shutdownCalls |-> 0, signalsSeen |-> 0,
     events |-> (IF mk = Absent THEN 0 ELSE 1) + (IF se THEN 0 ELSE 1),
     found |-> "unchecked", fileOps |-> {}, latched |-> -1,
     argv |-> <<Launcher, DebugFlag, UrlWithPassword>>, frozen |-> FALSE, tabs |-> <<>>,
     popen |-> <<>>,
     exc |-> "none"]

Init ==
    /\ \E se \in BOOLEAN, mk \in {Absent, "", OtherFault} :
          \E oo \in (IF mk = "" THEN BOOLEAN ELSE {FALSE}) :
             Is(StartWorld(se, mk, oo))
    /\ adapter = "none"
    /\ downloads = <<>>
    /\ notifications = <<>>
    /\ dlOps = <<>>
    /\ WindowInit("never")

\* Application.__init__ advances by one step.  The step that constructs the
\* main window restores its geometry first; an exception that leaves the
\* constructor leaves Application.__init__ too, so Python calls
\* sys.excepthook and the interpreter ends.
InitStep ==
    /\ phase = "init"
    /\ LET step == InitSteps[initDone + 1]
           restoring == step = "main-window"
                            /\ stored_geometry # NoStoredGeometry
       IN \E version \in (IF step = "app" THEN BOOLEAN ELSE {FALSE}),
             rm \in (IF step = "crashlog" /\ marker \in CrashData
                     THEN {"ok", "PermissionError"}
                     ELSE {"ok"}),
             raises \in (IF restoring /\ b64decode(stored_geometry).exc = "none"
                         THEN BOOLEAN ELSE {FALSE}) :
             \E win \in {IF step = "main-window"
                         THEN MainWindow_geometry(geometry, stored_geometry,
                                                  raises)
                         ELSE GeometryResult(geometry, "none", <<>>)} :
                /\ geometry' = win.geometry
                /\ IF win.exc = "none"
                   THEN Becomes(init_step(
                            [World EXCEPT !.log = @ \o win.logged],
                            step, version, rm))
                   ELSE \E inp \in HookInputs :
                           \E hooked \in {_exception_hook(
                                   [World EXCEPT
                                       !.log = @ \o win.logged
                                                 \o <<<<"MainWindow", win.exc>>>>],
                                   "genuine", inp)} :
                              Becomes(IF hooked.phase = "exited" THEN hooked
                                      ELSE Terminated(hooked,
                                                      "uncaught exception", 1))
    /\ UNCHANGED <<adapterVars, confirm_quit, prompts, closeEvents,
                   stored_geometry, runVars>>

\* The last window was closed: Qt calls the connected slot shutdown().
LastWindowClosed ==
    /\ phase = "running"
    /\ lwcConnected
    /\ \E inp \in InputsWhen(~shutting_down, 1) :
          Becomes(in_slot(shutdown(World, 0, inp), inp))
    /\ UNCHANGED <<adapterVars, windowVars>>

\* The tabbed browser emits quit: Qt calls the connected slot shutdown().
TabsQuit ==
    /\ phase = "running"
    /\ objreg_get(registry, "tabbed-browser") # NoObj
    /\ \E inp \in InputsWhen(~shutting_down, 1) :
          Becomes(in_slot(shutdown(World, 0, inp), inp))
    /\ UNCHANGED <<adapterVars, windowVars>>

\* The user runs the restart command.
Restart ==
    /\ phase = "running"
    /\ \E inp \in InputsWhen(~shutting_down, 2) :
          Becomes(in_slot(restart(World, TRUE, NoPages, inp), inp))
    /\ UNCHANGED <<adapterVars, windowVars>>

\* Some handler raised BdbQuit or something that is no Exception: Python
\* calls sys.excepthook.
BenignException ==
    /\ phase = "running"
    /\ \E inp \in InputsWhen(~shutting_down, 1) :
          Becomes(_exception_hook(World, "benign", inp))
    /\ UNCHANGED <<adapterVars, windowVars>>

\* Some handler raised an Exception: Python calls sys.excepthook.
GenuineException ==
    /\ phase = "running"
    /\ \E inp \in HookInputs :
          Becomes(_exception_hook(World, "genuine", inp))
    /\ UNCHANGED <<adapterVars, windowVars>>

UncaughtException ==
    \/ BenignException
    \/ GenuineException

\* SIGINT or SIGTERM arrives.
Signal ==
    /\ phase \in {"init", "running"}
    /\ \E sig \in Signals :
          \E inp \in InputsWhen(sigHandler[sig] = "default" /\ excepthook
                                /\ sig = SIGINT, 2) :
             Becomes(deliver(World, sig, inp))
    /\ UNCHANGED <<adapterVars, windowVars>>

\* The run-loop dispatches the next zero-delay callback.
Dispatch ==
    /\ phase = "running"
    /\ queue # <<>>
    /\ \E inp \in InputsWhen(\/ Head(queue).fn = "_shutdown"
                             \/ Head(queue).fn = "shutdown" /\ ~shutting_down
                             \/ Head(queue).fn = "_process_init_args",
                             IF Head(queue).fn = "shutdown" THEN 1 ELSE 0) :
          Becomes(dispatch(World, inp))
    /\ UNCHANGED <<adapterVars, windowVars>>

\* A question is asked: the prompter runs a nested loop.
AskQuestion ==
    /\ phase = "running"
    /\ objreg_get(registry, "prompter") # NoObj
    /\ ~promptActive
    /\ ~shutting_down
    /\ Becomes(Event([World EXCEPT !.promptActive = TRUE]))
    /\ UNCHANGED <<adapterVars, windowVars>>

\* The question is answered: the nested loop ends.
AnswerQuestion ==
    /\ phase = "running"
    /\ promptActive
    /\ Becomes([World EXCEPT !.promptActive = FALSE])
    /\ UNCHANGED <<adapterVars, windowVars>>

\* The process faults: faulthandler writes the traceback to its target and
\* the process dies.
Segfault ==
    /\ phase \in {"init", "running"}
    /\ \E data \in {OwnFault} :
          Becomes(Terminated(
              IF faultTarget = "file"
              THEN [Event(World) EXCEPT !.marker = data,
                                        !.fileOps = @ \cup {"write"}]
              ELSE Event(World),
              "fault", 139))
    /\ UNCHANGED <<adapterVars, windowVars>>

\* The other instance that owns the marker ends: gracefully (it deletes the
\* marker) or by a fault (its faulthandler fills the marker).
OtherInstanceEnds ==
    /\ otherOwner
    /\ \E left \in {Absent, OtherFault} :
          Becomes(Event([World EXCEPT !.otherOwner = FALSE, !.marker = left]))
    /\ UNCHANGED <<adapterVars, windowVars>>

\* Somebody deletes the marker file, as the warning about an empty crash log
\* asks the user to.
MarkerDeleted ==
    /\ marker # Absent
    /\ phase # "exited"
    /\ Becomes(Event([World EXCEPT !.marker = Absent, !.otherOwner = FALSE]))
    /\ UNCHANGED <<adapterVars, windowVars>>

Next ==
    \/ InitStep
    \/ LastWindowClosed
    \/ TabsQuit
    \/ Restart
    \/ UncaughtException
    \/ Signal
    \/ Dispatch
    \/ AskQuestion
    \/ AnswerQuestion
    \/ Segfault
    \/ OtherInstanceEnds
    \/ MarkerDeleted

Spec == Init /\ [][Next]_vars

\* ----------------------------------------------------------- download list

\* The downloads there can be, in the order they are started.
ItemOrder == <<"a", "b", "c", "d">>

Items == {ItemOrder[n] : n \in 1..Len(ItemOrder)}

\* str(item), the display text of a download.
str(item) == <<"text of", item>>

\* The roles data() is asked for.
Roles == {"DisplayRole", "Role.item", "ToolTipRole"}

\* An index the view holds is valid when its row exists:
\* QAbstractListModel.index(row) gives an invalid index for any other row.

\* DownloadModel.rowCount.
rowCount(reg, dls, parent_valid) ==
    IF parent_valid THEN 0
    ELSE IF objreg_get(reg, "download-manager") = NoObj THEN 0
    ELSE Len(dls)

index_valid(reg, dls, row) == 0 <= row /\ row < rowCount(reg, dls, FALSE)

\* DownloadModel.data as it would be if line 84 counted the row from the end
\* of the list (downloads[-1 - index.row()]).
data_from_end(reg, dls, row, role) ==
    IF ~index_valid(reg, dls, row) THEN <<"QtValueError">>
    ELSE LET item == dls[Len(dls) - row]
         IN CASE role = "DisplayRole" -> str(item)
              [] role = "Role.item" -> <<item>>
              [] OTHER -> <<"QVariant()">>

\* DownloadModel.data for column 0 of a top-level row.  Python's list index
\* index.row() counts from 0, a TLA+ sequence from 1.
data(reg, dls, row, role) ==
    IF ~index_valid(reg, dls, row) THEN <<"QtValueError">>
    ELSE LET item == dls[row + 1]
         IN CASE role = "DisplayRole" -> str(item)
              [] role = "Role.item" -> <<item>>
              [] OTHER -> <<"QVariant()">>

\* DownloadModel.__init__: objreg.get('download-manager') raises KeyError
\* when the manager is not registered; otherwise the signals are connected.
DownloadModel_init(reg) ==
    IF objreg_get(reg, "download-manager") = NoObj THEN "KeyError"
    ELSE "connected"

\* What the view is told, and how long the download manager's list is when
\* it is told (-1: not recorded).
Note(kind, first, last) ==
    [kind |-> kind, first |-> first, last |-> last, rows |-> -1]

\* The list holds rows items when the view gets the last notification.
Stamped(seen, rows) == [seen EXCEPT ![Len(seen)].rows = rows]

\* The slots connected in DownloadModel.__init__.
on_about_to_be_added(seen, idx) == Append(seen, Note("beginInsertRows", idx, idx))

\* The slot of download_added, were it connected to endRemoveRows.
on_added_as_removed(seen) == Append(seen, Note("endRemoveRows", -1, -1))

on_added(seen) == Append(seen, Note("endInsertRows", -1, -1))

on_about_to_be_finished(seen, idx) ==
    Append(seen, Note("beginRemoveRows", idx, idx))

on_finished(seen) == Append(seen, Note("endRemoveRows", -1, -1))

\* DownloadModel.on_data_changed.
on_data_changed(seen, reg, dls, idx) ==
    IF index_valid(reg, dls, idx)
    THEN Append(seen, Note("dataChanged", idx, idx))
    ELSE Append(seen, Note("QtValueError", idx, idx))

\* The download manager's list operations, with Python's indices.
list_insert(dls, idx, item) ==
    SubSeq(dls, 1, idx) \o <<item>> \o SubSeq(dls, idx + 1, Len(dls))

list_delete(dls, idx) == SubSeq(dls, 1, idx) \o SubSeq(dls, idx + 2, Len(dls))

Op(op, item, idx) == [op |-> op, item |-> item, idx |-> idx]

InDownloads(item) == \E n \in 1..Len(downloads) : downloads[n] = item

\* The next download to start is the first one that is not in the list.
IsNextItem(item) ==
    /\ ~InDownloads(item)
    /\ \E n \in 1..Len(ItemOrder) :
          /\ ItemOrder[n] = item
          /\ \A m \in 1..(n - 1) : InDownloads(ItemOrder[m])

\* The view constructs its model.
ConstructModel ==
    /\ phase # "exited"
    /\ adapter = "none"
    /\ adapter' = DownloadModel_init(registry)
    /\ UNCHANGED <<downloads, notifications, dlOps>>
    /\ UNCHANGED <<lifecycleVars, windowVars>>

\* The download manager adds a download at idx: it announces the row,
\* inserts the item and confirms.
DownloadAdded ==
    /\ phase = "running"
    /\ Len(downloads) < MaxDownloads
    /\ Len(dlOps) < MaxDownloadOps
    /\ \E item \in Items, idx \in 0..Len(downloads) :
          /\ IsNextItem(item)
          /\ downloads' = list_insert(downloads, idx, item)
          /\ dlOps' = Append(dlOps, Op("add", item, idx))
          /\ notifications' =
                 IF adapter = "connected"
                 THEN Stamped(
                          on_added(Stamped(
                              on_about_to_be_added(notifications, idx),
                              Len(downloads))),
                          Len(downloads'))
                 ELSE notifications
    /\ UNCHANGED adapter
    /\ UNCHANGED <<lifecycleVars, windowVars>>

\* A download finishes: the manager announces the row, deletes the item and
\* confirms.
DownloadFinished ==
    /\ phase = "running"
    /\ Len(dlOps) < MaxDownloadOps
    /\ \E idx \in 0..(Len(downloads) - 1) :
          /\ downloads' = list_delete(downloads, idx)
          /\ dlOps' = Append(dlOps, Op("remove", downloads[idx + 1], idx))
          /\ notifications' =
                 IF adapter = "connected"
                 THEN Stamped(
                          on_finished(Stamped(
                              on_about_to_be_finished(notifications, idx),
                              Len(downloads))),
                          Len(downloads'))
                 ELSE notifications
    /\ UNCHANGED adapter
    /\ UNCHANGED <<lifecycleVars, windowVars>>

\* A download's data changes.
DataChanged ==
    /\ phase = "running"
    /\ adapter = "connected"
    /\ Len(dlOps) < MaxDownloadOps
    /\ \E idx \in 0..(Len(downloads) - 1) :
          /\ notifications' = on_data_changed(notifications, registry,
                                              downloads, idx)
          /\ dlOps' = Append(dlOps, Op("change", downloads[idx + 1], idx))
    /\ UNCHANGED <<adapter, downloads>>
    /\ UNCHANGED <<lifecycleVars, windowVars>>

\* The start-up step that registers the download manager.
DownloadsStep == CHOOSE n \in 1..NSteps : InitSteps[n] = "downloads"

RECURSIVE after_steps(_, _)
\* The world w after a start-up nothing interferes with has gone on to
\* complete its first n steps.
after_steps(w, n) ==
    IF w.initDone < n
    THEN after_steps(init_step(w, InitSteps[w.initDone + 1], FALSE, "ok"), n)
    ELSE w

\* A plain run of the process (no marker at start, and no event but the one
\* call of shutdown), taken up right before the download manager is
\* registered or when the run-loop starts, with no download or three.
AdapterInit ==
    /\ \E n \in {DownloadsStep - 1, NSteps} :
          /\ Is([after_steps(StartWorld(TRUE, Absent, FALSE), n)
                    EXCEPT !.events = MaxEvents - 1])
          /\ downloads \in (IF n = NSteps THEN {<<>>, <<"a", "b", "c">>}
                             ELSE {<<>>})
    /\ adapter = "none"
    /\ notifications = <<>>
    /\ dlOps = <<>>
    /\ WindowInit("never")

AdapterNext ==
    \/ InitStep
    \/ LastWindowClosed
    \/ Dispatch
    \/ ConstructModel
    \/ DownloadAdded
    \/ DownloadFinished
    \/ DataChanged

AdapterSpec == AdapterInit /\ [][AdapterNext]_vars

\* ---------------------------------------------------------------- start-up

\* The process when Application.__init__ begins, started with or without
\* --nowindow.
StartupInit ==
    /\ \E se \in BOOLEAN, mk \in {Absent, "", OtherFault},
          flag \in {DebugFlag, NoWindowFlag} :
          \E oo \in (IF mk = "" THEN BOOLEAN ELSE {FALSE}) :
             Is([StartWorld(se, mk, oo) EXCEPT
                    !.argv = <<Launcher, flag, UrlX>>])
    /\ adapter = "none"
    /\ downloads = <<>>
    /\ notifications = <<>>
    /\ dlOps = <<>>
    /\ WindowInit("never")

StartupNext ==
    \/ InitStep
    \/ Signal

StartupSpec == StartupInit /\ [][StartupNext]_vars

\* ------------------------------------------------------------------ launch

\* The sequences over set of at most n elements.
SeqsUpTo(set, n) == UNION {[1..m -> set] : m \in 0..n}

\* How the program can have been started: by the launcher script, as a
\* frozen executable, or as a module of the interpreter.
Launches ==
    {[argv0 |-> Launcher, frozen |-> FALSE],
     [argv0 |-> Prog, frozen |-> TRUE],
     [argv0 |-> ModuleMain, frozen |-> FALSE]}

\* The arguments there can be after the program.
Arguments == {DebugFlag, NoWindowFlag, StartupCommand}

\* The addresses a tab can be at.
Addresses == {UrlX, UrlY, EmptyUrl}

\* A run of the process started in one of the ways there are, taken up after
\* start-up and the processing of the arguments, when the user has opened
\* and closed tabs and gone to other pages.
LaunchInit ==
    /\ \E l \in Launches, rest \in SeqsUpTo(Arguments, MaxArgs) :
          \E started \in {dispatch(
                  after_steps([StartWorld(TRUE, Absent, FALSE) EXCEPT
                                  !.argv = <<l.argv0>> \o rest,
                                  !.frozen = l.frozen],
                              NSteps),
                  NoInput)} :
             \E urls \in SeqsUpTo(Addresses, MaxTabs) :
                Is([started EXCEPT !.tabs = urls,
                                   !.events = MaxEvents - 2])
    /\ adapter = "none"
    /\ downloads = <<>>
    /\ notifications = <<>>
    /\ dlOps = <<>>
    /\ WindowInit("never")

LaunchNext ==
    \/ Restart
    \/ GenuineException
    \/ Dispatch

LaunchSpec == LaunchInit /\ [][LaunchNext]_vars

\* ----------------------------------------------------------- closing window

\* The user asks the main window to close: Qt calls closeEvent, closes the
\* window when the event was accepted and, it being the last one, emits
\* lastWindowClosed, which calls the connected slot shutdown().
CloseWindow ==
    /\ phase = "running"
    /\ objreg_get(registry, "main-window") # NoObj
    /\ Len(closeEvents) < MaxCloses
    /\ \E confirmed \in BOOLEAN, inp \in InputsWhen(~shutting_down, 1) :
          LET e == closeEvent(confirm_quit, Len(tabs), confirmed)
          IN /\ prompts' = prompts \o e.asked
             /\ closeEvents' = Append(closeEvents, e.result)
             /\ IF e.result = "accept" /\ lwcConnected
                THEN Becomes(in_slot(shutdown(World, 0, inp), inp))
                ELSE UNCHANGED lifecycleVars
    /\ UNCHANGED <<confirm_quit, adapterVars, geometryVars, runVars>>

\* The user opens a tab.
TabOpened ==
    /\ phase = "running"
    /\ objreg_get(registry, "tabbed-browser") # NoObj
    /\ Len(tabs) < MaxTabs
    /\ Becomes([World EXCEPT !.tabs = Append(@, UrlX)])
    /\ UNCHANGED <<adapterVars, windowVars>>

\* The user closes a tab that is not the last one.
TabClosed ==
    /\ phase = "running"
    /\ objreg_get(registry, "tabbed-browser") # NoObj
    /\ Len(tabs) > 1
    /\ Becomes([World EXCEPT !.tabs = Tail(@)])
    /\ UNCHANGED <<adapterVars, windowVars>>

\* The user sets confirm-quit.
ConfigSet ==
    /\ phase = "running"
    /\ objreg_get(registry, "config") # NoObj
    /\ \E policy \in Policies \ {confirm_quit} : confirm_quit' = policy
    /\ UNCHANGED <<lifecycleVars, adapterVars, prompts, closeEvents,
                   geometryVars, runVars>>

\* A run taken up after start-up, under some policy, with some tabs open.
CloseInit ==
    /\ \E started \in {dispatch(after_steps(StartWorld(TRUE, Absent, FALSE),
                                            NSteps),
                                NoInput)} :
          \E count \in 0..MaxTabs :
             Is([started EXCEPT !.tabs = [n \in 1..count |-> UrlX],
                                !.events = MaxEvents - 1])
    /\ \E policy \in Policies : WindowInit(policy)
    /\ adapter = "none"
    /\ downloads = <<>>
    /\ notifications = <<>>
    /\ dlOps = <<>>

CloseNext ==
    \/ CloseWindow
    \/ TabOpened
    \/ TabClosed
    \/ ConfigSet
    \/ Dispatch

CloseSpec == CloseInit /\ [][CloseNext]_vars

\* ----------------------------------------------------------- crash recovery

\* A step of Application.__init__ raises an Exception after the hook was
\* installed: Python calls sys.excepthook.
InitException ==
    /\ phase = "init"
    /\ excepthook
    /\ \E inp \in RecoveryInputs :
          \E hooked \in {_exception_hook(World, "genuine", inp)} :
             Becomes(IF hooked.phase = "exited" THEN hooked
                     ELSE Terminated(hooked, "uncaught exception", 1))
    /\ UNCHANGED <<adapterVars, windowVars>>

\* Some handler raised an Exception, and what the hook reads to fill the
\* crash dialog may raise as well.
DamagedException ==
    /\ phase = "running"
    /\ \E inp \in RecoveryInputs :
          Becomes(_exception_hook(World, "genuine", inp))
    /\ UNCHANGED <<adapterVars, windowVars>>

\* A process started with two addresses.
CrashInit ==
    /\ \E mk \in {Absent, ""} :
          Is([StartWorld(TRUE, mk, FALSE) EXCEPT
                 !.argv = <<Launcher, UrlX, UrlWithPassword>>])
    /\ adapter = "none"
    /\ downloads = <<>>
    /\ notifications = <<>>
    /\ dlOps = <<>>
    /\ WindowInit("never")

CrashNext ==
    \/ InitStep
    \/ InitException
    \/ DamagedException
    \/ LastWindowClosed
    \/ Dispatch

CrashSpec == CrashInit /\ [][CrashNext]_vars

\* ---------------------------------------------------------------- spawning

\* The inputs of a handler that calls restart, when subprocess.Popen can
\* raise.
SpawnInputs(inputs) ==
    {[i EXCEPT !.spawn = sp, !.accept = ac] :
        i \in inputs, sp \in {"ok", "OSError"}, ac \in BOOLEAN}

\* The user runs the restart command, and starting the process may fail.
RestartSpawning ==
    /\ phase = "running"
    /\ \E inp \in SpawnInputs(InputsWhen(~shutting_down, 2)) :
          Becomes(in_slot(restart(World, TRUE, NoPages, inp), inp))
    /\ UNCHANGED <<adapterVars, windowVars>>

\* Some handler raised an Exception, and starting the process after the
\* crash dialog may fail.
CrashSpawning ==
    /\ phase = "running"
    /\ \E inp \in SpawnInputs(HookInputs) :
          Becomes(_exception_hook(World, "genuine", inp))
    /\ UNCHANGED <<adapterVars, windowVars>>

\* A run taken up after start-up with two addresses, the arguments
\* processed.
SpawnInit ==
    /\ \E mk \in {Absent, ""} :
          Is(dispatch(after_steps(
                          [StartWorld(TRUE, mk, FALSE) EXCEPT
                              !.argv = <<Launcher, UrlX, UrlWithPassword>>],
                          NSteps),
                      NoInput))
    /\ adapter = "none"
    /\ downloads = <<>>
    /\ notifications = <<>>
    /\ dlOps = <<>>
    /\ WindowInit("never")

SpawnNext ==
    \/ RestartSpawning
    \/ CrashSpawning
    \/ LastWindowClosed
    \/ Dispatch

SpawnSpec == SpawnInit /\ [][SpawnNext]_vars

\* ---------------------------------------------------------------- geometry

\* The process when Application.__init__ begins, with whatever an earlier
\* run or an editor has left as the stored geometry.
GeometryInit ==
    /\ \E mk \in {Absent, "", OtherFault} : Is(StartWorld(TRUE, mk, FALSE))
    /\ adapter = "none"
    /\ downloads = <<>>
    /\ notifications = <<>>
    /\ dlOps = <<>>
    /\ confirm_quit = "never"
    /\ prompts = <<>>
    /\ closeEvents = <<>>
    /\ stored_geometry \in StoredGeometries
    /\ geometry = InitialGeometry
    /\ runs = <<>>
    /\ relaunched = <<>>

GeometryNext ==
    \/ InitStep
    \/ Dispatch
    \/ LastWindowClosed

GeometrySpec == GeometryInit /\ [][GeometryNext]_vars

\* ------------------------------------------------------- start-up arguments

\* What can stand on the command line after the program: addresses, one of
\* them malformed and one without its scheme, and a command.
StartupArguments == {UrlX, MalformedUrl, BareAddress, StartupCommand}

\* A run taken up when Application.__init__ has returned and the processing
\* of the arguments is the first callback of the run-loop.
ArgsInit ==
    /\ \E rest \in SeqsUpTo(StartupArguments, MaxStartupArgs) :
          Is([after_steps([StartWorld(TRUE, Absent, FALSE) EXCEPT
                              !.argv = <<Launcher>> \o rest],
                          NSteps)
              EXCEPT !.events = MaxEvents - 1])
    /\ adapter = "none"
    /\ downloads = <<>>
    /\ notifications = <<>>
    /\ dlOps = <<>>
    /\ WindowInit("never")

\* The run-loop calls _process_init_args, with the start pages the
\* configuration has at that time.
ProcessInitArgs ==
    /\ phase = "running"
    /\ queue # <<>>
    /\ Head(queue).fn = "_process_init_args"
    /\ \E pages \in StartPageLists :
          \E inp \in {[NoInput EXCEPT !.startpage = pages]} :
             Becomes(dispatch(World, inp))
    /\ UNCHANGED <<adapterVars, windowVars>>

ArgsNext ==
    \/ ProcessInitArgs
    \/ LastWindowClosed
    \/ Dispatch

ArgsSpec == ArgsInit /\ [][ArgsNext]_vars

\* -------------------------------------------------------------------- runs

\* What a run that ended leaves for the record: what its start-up found at
\* the marker's path, whether it had a handle on the marker, and the marker
\* as it left it.
Ended == [found |-> found, handle |-> crashlogfile, left |-> marker]

\* The program is started again after it ended: Application.__init__ begins
\* with the marker as the last run left it.
NextRun ==
    /\ phase = "exited"
    /\ Len(runs) + 1 < MaxRuns
    /\ runs' = Append(runs, Ended)
    /\ Becomes([StartWorld(has_stderr, marker, FALSE) EXCEPT
                    !.events = MaxEvents - 2])
    /\ UNCHANGED <<adapterVars, confirm_quit, prompts, closeEvents,
                   geometryVars, relaunched>>

\* The first run begins; there is no other instance and nobody but the
\* program touches the marker.
RunsInit ==
    /\ \E mk \in {Absent, "", OtherFault} :
          Is([StartWorld(TRUE, mk, FALSE) EXCEPT !.events = MaxEvents - 2])
    /\ adapter = "none"
    /\ downloads = <<>>
    /\ notifications = <<>>
    /\ dlOps = <<>>
    /\ WindowInit("never")

RunsNext ==
    \/ InitStep
    \/ Signal
    \/ LastWindowClosed
    \/ Dispatch
    \/ Segfault
    \/ NextRun

RunsSpec == RunsInit /\ [][RunsNext]_vars

\* ---------------------------------------------------------------- relaunch

\* The process subprocess.Popen starts with args, when Application.__init__
\* begins.  The file at the marker's path is the variable marker; the field
\* of a tracked process is not used.
Started(args) == [StartWorld(TRUE, Absent, FALSE) EXCEPT !.argv = args]

\* The file is not kept with the tracked process.
Tracked(p) == [p EXCEPT !.marker = Absent]

\* The step of Application.__init__ that calls _handle_segfault.
SegfaultStep == CHOOSE n \in 1..NSteps : InitSteps[n] = "crashlog"

\* The start-up of process p up to and with _handle_segfault, which meets
\* the file mk.
checked(p, mk, rm) ==
    init_step([after_steps(p, SegfaultStep - 1) EXCEPT !.marker = mk],
              "crashlog", FALSE, rm)

\* A handler of the running process takes it to next.  When the handler
\* started a process, that process is tracked; it may run its
\* _handle_segfault while the handler still runs, and then it meets the
\* marker as it was at subprocess.Popen: restart calls Popen (lines 557-560)
\* before shutdown (line 562), and the hook calls restart (line 513) before
\* _destroy_crashlogfile (line 518).
Relaunching(next) ==
    /\ Becomes(next)
    /\ IF next.spawned > spawned /\ relaunched = <<>>
       THEN \E early \in (IF next.marker # marker /\ marker = ""
                          THEN BOOLEAN ELSE {FALSE}) :
               relaunched' =
                   <<IF early
                     THEN Tracked(checked(
                              Started(next.popen[Len(next.popen)].args),
                              marker, "ok"))
                     ELSE Started(next.popen[Len(next.popen)].args)>>
       ELSE relaunched' = relaunched
    /\ UNCHANGED <<adapterVars, confirm_quit, prompts, closeEvents,
                   geometryVars, runs>>

\* The user runs the restart command.
RestartRacing ==
    /\ phase = "running"
    /\ \E inp \in InputsWhen(~shutting_down, 2) :
          Relaunching(in_slot(restart(World, TRUE, NoPages, inp), inp))

\* Some handler raised an Exception and the user may accept the dialog.
CrashRacing ==
    /\ phase = "running"
    /\ \E inp \in HookInputs :
          Relaunching(_exception_hook(World, "genuine", inp))

\* The relaunched process runs its _handle_segfault.
RelaunchedChecks ==
    /\ relaunched # <<>>
    /\ relaunched[1].found = "unchecked"
    /\ \E rm \in (IF marker \in CrashData THEN {"ok", "PermissionError"}
                   ELSE {"ok"}) :
          \E p \in {checked(relaunched[1], marker, rm)} :
             /\ relaunched' = <<Tracked(p)>>
             /\ Becomes([World EXCEPT !.marker = p.marker])
    /\ UNCHANGED <<adapterVars, confirm_quit, prompts, closeEvents,
                   geometryVars, runs>>

\* The relaunched process completes its start-up and, later, its last
\* window is closed: it runs both stages of the shutdown and exits.
RelaunchedShutsDown ==
    /\ relaunched # <<>>
    /\ relaunched[1].found # "unchecked"
    /\ relaunched[1].phase = "init"
    /\ \E rm \in {"ok", "PermissionError"} :
          \E p \in {shutdown([after_steps(relaunched[1], NSteps) EXCEPT
                                 !.marker = marker],
                             0, [NoInput EXCEPT !.rm = rm])} :
             /\ relaunched' = <<Tracked(Terminated(p, "scheduled exit", 0))>>
             /\ Becomes([World EXCEPT !.marker = p.marker])
    /\ UNCHANGED <<adapterVars, confirm_quit, prompts, closeEvents,
                   geometryVars, runs>>

\* The relaunched process faults: faulthandler writes to its target.
RelaunchedFaults ==
    /\ relaunched # <<>>
    /\ relaunched[1].found # "unchecked"
    /\ relaunched[1].phase = "init"
    /\ relaunched' = <<Terminated(relaunched[1], "fault", 139)>>
    /\ Becomes(IF relaunched[1].faultTarget = "file"
               THEN [World EXCEPT !.marker = OwnFault]
               ELSE World)
    /\ UNCHANGED <<adapterVars, confirm_quit, prompts, closeEvents,
                   geometryVars, runs>>

\* A run taken up after start-up, the arguments processed, that began with
\* no marker, with a stale one or with fault data, and in which a question
\* is being asked or not.
RelaunchInit ==
    /\ \E mk \in {Absent, "", OtherFault}, asking \in BOOLEAN :
          Is([dispatch(after_steps(
                           [StartWorld(TRUE, mk, FALSE) EXCEPT
                               !.argv = <<Launcher, UrlX>>],
                           NSteps),
                       NoInput)
              EXCEPT !.events = 0, !.promptActive = asking])
    /\ adapter = "none"
    /\ downloads = <<>>
    /\ notifications = <<>>
    /\ dlOps = <<>>
    /\ WindowInit("never")

RelaunchNext ==
    \/ RestartRacing
    \/ CrashRacing
    \/ RelaunchedChecks
    \/ RelaunchedShutsDown
    \/ RelaunchedFaults
    \/ Dispatch
    \/ Segfault

RelaunchSpec == RelaunchInit /\ [][RelaunchNext]_vars

\* ------------------------------------------------- the latch after a failure

\* A handler counts for one event at most, however much fails in it.
AsOneEvent(w) ==
    [w EXCEPT !.events = IF @ > events + 1 THEN events + 1 ELSE @]

\* What the environment can decide in a handler that may run the second
\* stage: one save handler may raise, the user may accept the crash dialog,
\* and subprocess.Popen may fail.
AbortInputs ==
    IF shutting_down /\ \A n \in 1..Len(queue) : queue[n].fn # "_shutdown"
    THEN {NoInput}
    ELSE SpawnInputs({i \in InputsUpTo[1] : Relevant(i)})

\* The last window was closed: Qt calls the connected slot shutdown(), and
\* starting a process after the crash dialog may fail.
LastWindowClosedAborting ==
    /\ phase = "running"
    /\ lwcConnected
    /\ \E inp \in AbortInputs :
          Becomes(AsOneEvent(in_slot(shutdown(World, 0, inp), inp)))
    /\ UNCHANGED <<adapterVars, windowVars>>

\* The run-loop dispatches the next zero-delay callback, and starting a
\* process after the crash dialog may fail.
DispatchAborting ==
    /\ phase = "running"
    /\ queue # <<>>
    /\ \E inp \in (IF Head(queue).fn = "exit" THEN {NoInput}
                   ELSE AbortInputs) :
          Becomes(AsOneEvent(dispatch(World, inp)))
    /\ UNCHANGED <<adapterVars, windowVars>>

\* A run taken up after start-up, the arguments processed, with or without
\* a question being asked.
LatchInit ==
    /\ \E asking \in BOOLEAN :
          Is([dispatch(after_steps(
                           [StartWorld(TRUE, Absent, FALSE) EXCEPT
                               !.argv = <<Launcher, UrlX>>],
                           NSteps),
                       NoInput)
              EXCEPT !.events = 0, !.promptActive = asking])
    /\ adapter = "none"
    /\ downloads = <<>>
    /\ notifications = <<>>
    /\ dlOps = <<>>
    /\ WindowInit("never")

LatchNext ==
    \/ LastWindowClosedAborting
    \/ DispatchAborting
    \/ TabsQuit
    \/ BenignException
    \/ Signal

LatchSpec == LatchInit /\ [][LatchNext]_vars

\* ------------------------------------------------------------- properties

InLog(entry) == InList(entry, log)

\* A callback for fn waits in the run-loop's queue.
Pending(fn) == \E n \in 1..Len(queue) : queue[n].fn = fn

\* What a call of shutdown() that finds the latch set must leave alone.
ShutdownEffects ==
    <<stage2Runs, saved, registry, marker, crashlogfile, faultTarget,
      msgHandler, eventFilter, phase, promptActive, shutting_down, latched,
      exitStatus, exitVia, fileOps>>

\* C1: the second stage is never entered twice; once the latch is set it
\* has been entered exactly once unless its deferred call still waits in the
\* queue; and a call of shutdown() that finds the latch set changes nothing
\* (when the run-loop made the call, its callback left the queue).
ShutdownRunsStage2Once ==
    /\ [](stage2Runs <= 1)
    /\ [](shutting_down /\ ~Pending("_shutdown") => stage2Runs = 1)
    /\ [][shutting_down /\ shutdownCalls' > shutdownCalls =>
              /\ UNCHANGED ShutdownEffects
              /\ queue' \in {queue, Tail(queue)}]_vars

\* shutdown() was called again after the call that ran the second stage.
ShutdownCalledAgain == shutdownCalls >= 2 /\ stage2Runs = 1

\* The position of the first occurrence of entry in the log (0: none).
LogPos(entry) ==
    IF InLog(entry)
    THEN CHOOSE n \in 1..Len(log) :
             /\ log[n] = entry
             /\ \A m \in 1..(n - 1) : log[m] # entry
    ELSE 0

\* first happened, and second did not happen before it.
Before(first, second) ==
    /\ InLog(first)
    /\ InLog(second) => LogPos(first) < LogPos(second)

\* C2: when the second signal was handled before shutdown() began and the
\* process ended by the forced exit, the forced exit happened instead of the
\* graceful shutdown: the second stage was not entered and no persistence
\* handler ran.
ForcedExitSkipsShutdown ==
    (exitVia = "forced exit"
     /\ Before(<<"interrupt_forcefully">>, <<"shutdown">>))
        => (~InLog(<<"_shutdown">>) /\ saved = {})

\* The to_save list the second stage built (empty: it built none).
SaveList ==
    IF \E n \in 1..Len(log) : Head(log[n]) = "to_save"
    THEN Tail(log[CHOOSE n \in 1..Len(log) : Head(log[n]) = "to_save"])
    ELSE <<>>

\* C3: every handler on the to_save list of the second stage is invoked,
\* whatever the handlers before it did.
EverySaveHandlerInvoked ==
    \A n \in 1..Len(SaveList) : InLog(<<"save", SaveList[n]>>)

\* C4: a second stage that was entered has released the marker, cleared the
\* registry and scheduled exit(status) with the status shutdown() was called
\* with, whatever failed on the way.
Stage2AlwaysCompletes ==
    InLog(<<"_shutdown">>) =>
        /\ crashlogfile # "open"
        /\ \A k \in Keys : objreg_get(registry, k) = NoObj
        /\ InLog(<<"singleShot exit">>)
        /\ \/ \E n \in 1..Len(queue) :
                  queue[n] = [fn |-> "exit", status |-> latched,
                              by |-> "_shutdown"]
           \/ phase = "exited"

\* The step of start-up that calls _handle_segfault.
CrashlogStep == CHOOSE n \in 1..NSteps : InitSteps[n] = "crashlog"

\* This step is the one in which start-up calls _handle_segfault.
HandlesSegfault == initDone = CrashlogStep - 1 /\ initDone' = CrashlogStep

\* C5: a start-up that finds the marker empty leaves it as it is, and an
\* instance that found it empty never holds a handle to it, never directs
\* fault capture to it and never does more to the file than the one read.
StaleMarkerIsLeftAlone ==
    /\ [][HandlesSegfault /\ marker = "" =>
              found' = "empty" /\ marker' = ""]_vars
    /\ [](found = "empty" =>
              /\ crashlogfile = "none"
              /\ faultTarget # "file"
              /\ fileOps \subseteq {"read"})

\* An instance that found the marker empty went through both stages of
\* shutdown and exited, and the marker is still there.
StaleMarkerSurvivedShutdown ==
    /\ found = "empty"
    /\ InLog(<<"singleShot exit">>)
    /\ exitVia = "scheduled exit"
    /\ marker = ""

\* C6 as stated: a start-up that finds content in the marker reads it,
\* deletes the file, shows the previous-crash dialog built from that content
\* and ends the step owning a fresh marker with fault capture directed to it.
CrashDataAlwaysRecovered ==
    [][HandlesSegfault /\ marker \in CrashData =>
          /\ crashdlg' = [kind |-> "FatalCrashDialog", data |-> marker]
          /\ {"read", "remove", "create"} \subseteq fileOps'
          /\ marker' = ""
          /\ crashlogfile' = "open"
          /\ faultTarget' = "file"]_vars

\* C6, amended: the content is read and the dialog built from it in any
\* case; the file is deleted and a fresh marker owned unless os.remove fails
\* with PermissionError, and then the file stays as it is, with no handle
\* and no fault capture directed to it.
CrashDataRecoveredUnlessUndeletable ==
    [][HandlesSegfault /\ marker \in CrashData =>
          /\ crashdlg' = [kind |-> "FatalCrashDialog", data |-> marker]
          /\ found' = "data"
          /\ "read" \in fileOps'
          /\ IF "remove-failed" \in fileOps'
             THEN /\ marker' = marker
                  /\ crashlogfile' = "none"
                  /\ faultTarget' = faultTarget
                  /\ fileOps' = {"read", "remove-failed"}
             ELSE /\ marker' = ""
                  /\ crashlogfile' = "open"
                  /\ faultTarget' = "file"
                  /\ fileOps' = {"read", "remove", "create"}]_vars

\* Start-up found content, deleted the file and owns a fresh marker.
CrashDataRecovered ==
    /\ found = "data"
    /\ crashdlg = [kind |-> "FatalCrashDialog", data |-> OtherFault]
    /\ crashlogfile = "open"
    /\ marker = ""
    /\ initDone = CrashlogStep

\* C7: a start-up that finds no marker creates it empty, holds the open
\* handle, directs fault capture to it and shows no dialog.
AbsentMarkerIsCreated ==
    [][HandlesSegfault /\ marker = Absent =>
          /\ found' = "absent"
          /\ marker' = ""
          /\ crashlogfile' = "open"
          /\ faultTarget' = "file"
          /\ fileOps' = {"create"}
          /\ crashdlg' = [kind |-> "none", data |-> ""]]_vars

\* Start-up found no marker and created one.
AbsentMarkerCreated ==
    /\ found = "absent"
    /\ crashlogfile = "open"
    /\ marker = ""
    /\ initDone = CrashlogStep

\* This step is one in which the second stage of an instance that holds the
\* marker's handle reaches its call of _destroy_crashlogfile.
Stage2ReleasesMarker ==
    /\ crashlogfile = "open"
    /\ ~InLog(<<"_destroy_crashlogfile">>)
    /\ InList(<<"_destroy_crashlogfile">>, log')

\* C8: when the second stage of an instance that holds the marker's handle
\* reaches _destroy_crashlogfile, that step directs fault capture away from
\* the marker, closes the handle, deletes the file or logs that it could
\* not, uninstalls the message handler, clears the registry and schedules
\* exit; and a closed handle always means the file is gone or the failure
\* was logged.
MarkerReleasedOnShutdown ==
    /\ [][Stage2ReleasesMarker =>
              /\ faultTarget' = IF has_stderr THEN "stderr" ELSE "disabled"
              /\ crashlogfile' = "closed"
              /\ \/ marker' = Absent /\ "remove" \in fileOps'
                 \/ /\ marker' = marker
                    /\ InList(<<"Could not remove crash log!">>, log')
              /\ ~msgHandler'
              /\ \A k \in Keys : objreg_get(registry', k) = NoObj
              /\ queue' # <<>>
              /\ queue'[Len(queue')] =
                     [fn |-> "exit", status |-> latched', by |-> "_shutdown"]]_vars
    /\ [](crashlogfile = "closed" =>
              /\ faultTarget # "file"
              /\ marker = Absent \/ InLog(<<"Could not remove crash log!">>))

\* The marker could not be deleted, and the instance still went through the
\* rest of the second stage and exited as scheduled.
ShutdownSurvivedUndeletableMarker ==
    /\ crashlogfile = "closed"
    /\ marker # Absent
    /\ InLog(<<"Could not remove crash log!">>)
    /\ InLog(<<"objreg.clear">>)
    /\ exitVia = "scheduled exit"

\* The keys the start-up step registers.
RegisteredIn(step) ==
    {k \in Keys : InList(k, registers(step)) \/ InList(k, registers_ext(step))}

ManagerRegistered == objreg_get(registry, "download-manager") # NoObj

\* While the manager can be looked up, the adapter reports the list as it
\* is: as many rows as downloads, and row i the text of the i-th download.
ReadsThrough ==
    ManagerRegistered =>
        /\ rowCount(registry, downloads, FALSE) = Len(downloads)
        /\ \A i \in 0..(Len(downloads) - 1) :
              data(registry, downloads, i, "DisplayRole") = str(downloads[i + 1])

\* This step inserts d at index 1 into the list [a, b, c].
InsertsD ==
    /\ downloads = <<"a", "b", "c">>
    /\ dlOps' = Append(dlOps, Op("add", "d", 1))
    /\ ManagerRegistered'

\* This step removes index 0 from the list InsertsD has left.
ThenRemovesFirst ==
    /\ dlOps = <<Op("add", "d", 1)>>
    /\ Len(downloads) = 4
    /\ dlOps' = Append(dlOps, Op("remove", downloads[1], 0))
    /\ ManagerRegistered'

\* After InsertsD there are four rows, and row 1 reports d.
FourRowsWithD ==
    /\ rowCount(registry', downloads', FALSE) = 4
    /\ data(registry', downloads', 1, "DisplayRole") = str("d")

\* C10 as stated: the adapter reads through; inserting d at index 1 into
\* [a, b, c] gives four rows with row 1 reporting d, and removing index 0
\* then gives three rows with row 0 reporting b.
AdapterExampleAsStated ==
    /\ []ReadsThrough
    /\ [][InsertsD => FourRowsWithD]_vars
    /\ [][ThenRemovesFirst =>
              /\ rowCount(registry', downloads', FALSE) = 3
              /\ data(registry', downloads', 0, "DisplayRole") = str("b")]_vars

\* C10, amended: the adapter reads through; inserting d at index 1 into
\* [a, b, c] gives four rows with row 1 reporting d, and removing index 0
\* then gives three rows with row 0 reporting d and row 1 reporting b.
AdapterReadsThrough ==
    /\ []ReadsThrough
    /\ [][InsertsD => FourRowsWithD]_vars
    /\ [][ThenRemovesFirst =>
              /\ rowCount(registry', downloads', FALSE) = 3
              /\ data(registry', downloads', 0, "DisplayRole") = str("d")
              /\ data(registry', downloads', 1, "DisplayRole") = str("b")]_vars

\* d was inserted at index 1 into [a, b, c] and index 0 removed then, with
\* the adapter connected and the manager registered.
InsertedThenRemoved ==
    /\ dlOps = <<Op("add", "d", 1), Op("remove", "a", 0)>>
    /\ Len(downloads) = 3
    /\ adapter = "connected"
    /\ ManagerRegistered

\* C11: constructing the adapter never fails, and while the download
\* manager cannot be looked up the adapter reports no rows.
AdapterToleratesMissingManager ==
    /\ adapter # "KeyError"
    /\ ~ManagerRegistered => rowCount(registry, downloads, FALSE) = 0

\* ----------------------------------------------------------------- relaunch

IsFlag(arg) == arg.first = "-"

HasAddress(url) == url.text # ""

\* The command line of the process started last.
Relaunched == popen[Len(popen)].args

RelaunchStep(program) ==
    popen' # popen =>
        Relaunched' = program \o SelectSeq(Tail(argv), IsFlag)
                              \o SelectSeq(tabs, HasAddress)

\* C12 as stated: the command line of the new process is the program of the
\* launch vector, then the flags of the launch vector in their order, then
\* the addresses of the open pages in tab order without the empty ones.
RelaunchKeepsLaunchVector == [][RelaunchStep(<<argv[1]>>)]_vars

\* How the new process is started: by the launcher script when that started
\* this one, else by the frozen executable, else as a module of the
\* interpreter.
LaunchProgram ==
    IF argv[1].base = "qutebrowser" THEN <<argv[1]>>
    ELSE IF frozen THEN <<sys_executable>>
    ELSE <<sys_executable, MinusM, PackageName>>

RelaunchExample ==
    argv = <<Launcher, DebugFlag>> /\ tabs = <<UrlX, UrlY>> /\ popen # <<>>
        => Relaunched = <<Launcher, DebugFlag, UrlX, UrlY>>

\* C12, amended: the command line of the new process is the launcher script,
\* the frozen executable or the interpreter with -m qutebrowser, then the
\* flags of the launch vector in their order, then the addresses of the open
\* pages in tab order without the empty ones; started by the launcher script
\* with --debug and with the pages https://x and https://y open, it is the
\* script, --debug, https://x, https://y.
RelaunchKeepsFlagsAndPages ==
    [](RelaunchExample) /\ [][RelaunchStep(LaunchProgram)]_vars

\* A process started with two flags around a command, with an empty tab
\* between two pages, has started its successor.
RelaunchedWithoutPositionals ==
    /\ argv = <<Launcher, DebugFlag, StartupCommand>>
    /\ tabs = <<UrlX, EmptyUrl>>
    /\ popen # <<>>
    /\ Relaunched = <<Launcher, DebugFlag, UrlX>>

\* ------------------------------------------------------------- exit status

\* The signal whose handler made the first log entry what.
SignalHandledBy(what) ==
    LET name == log[LogPos(what) - 1][2]
    IN IF name = "SIGINT" THEN SIGINT ELSE SIGTERM

\* The call of shutdown() that passed the latch was the one interrupt had
\* scheduled.
LatchedBySignal ==
    /\ InLog(<<"shutdown">>)
    /\ log[LogPos(<<"shutdown">>) - 1] = <<"run", "shutdown", "interrupt">>

\* C13: the scheduled exit ends the process with the status of the call of
\* shutdown() that passed the latch, which is 128 + signum when a signal
\* made that call and 0 when a closed window, the quit or the restart
\* command did; the forced exit and the exit of the third signal end it
\* with 128 + signum; the hook ends it with 1 after the crash dialog.
ExitStatusTellsCause ==
    /\ exitVia = "scheduled exit" =>
          /\ exitStatus = latched
          /\ exitStatus = IF LatchedBySignal
                          THEN 128 + SignalHandledBy(<<"interrupt">>)
                          ELSE 0
    /\ exitVia = "forced exit" =>
          exitStatus = 128 + SignalHandledBy(<<"interrupt_forcefully">>)
    /\ exitVia = "sys.exit" /\ InLog(<<"interrupt_really_forcefully">>) =>
          exitStatus = 128 + SignalHandledBy(<<"interrupt_really_forcefully">>)
    /\ exitVia = "sys.exit" /\ InLog(<<"crash dialog">>) => exitStatus = 1

\* SIGTERM made the process shut down, and the scheduled exit ended it.
ExitedOnSigterm ==
    /\ exitVia = "scheduled exit"
    /\ LatchedBySignal
    /\ exitStatus = 128 + SIGTERM

\* ------------------------------------------------------------ crash dialog

\* The hook handled a genuine exception in this step.
CrashStep ==
    /\ ~InLog(<<"excepthook", "genuine">>)
    /\ InList(<<"excepthook", "genuine">>, log')

\* What the log holds after the crash dialog was shown.
AfterDialog ==
    LET shown == CHOOSE n \in 1..Len(log') : log'[n] = <<"crash dialog">>
    IN SubSeq(log', shown + 1, Len(log'))

\* The pages the hook can recover: those of the tabs, unless the second
\* stage has closed them or the tabbed browser is not registered.
Recoverable ==
    IF \/ InList(<<"tabbed-browser.shutdown">>, log')
       \/ objreg_get(registry, "tabbed-browser") = NoObj
    THEN <<>>
    ELSE SelectSeq([n \in 1..Len(tabs) |-> url_toString(tabs[n])], HasAddress)

StartupOrder ==
    <<"QApplication", "excepthook", "args", "app">>
    \o <<"message-bridge", "readline-bridge", "config", "crashlog", "modes",
         "websettings", "quickmarks", "proxy", "userscripts", "utilcmds",
         "cookies", "cache", "commands", "search", "downloads",
         "main-window", "debug-console">>
    \o <<"eventfilter", "connect_signals", "enter-mode", "show",
         "python_hacks">>

IsInitEntry(entry) == entry[1] = "init"

\* The start-up steps taken so far, in the order they were taken.
StepsTaken ==
    LET taken == SelectSeq(log, IsInitEntry)
    IN [n \in 1..Len(taken) |-> taken[n][2]]

\* The objects the modules register.
ModuleKeys ==
    Keys \ {"args", "app", "python-hack-timer"}

Stage2Rank(entry) ==
    CASE entry = <<"_shutdown">> -> 1
      [] entry = <<"removeEventFilter">> -> 2
      [] entry = <<"tabbed-browser.shutdown">> -> 3
      [] entry[1] \in {"to_save", "save", "Could not save"} -> 4
      [] entry = <<"_destroy_crashlogfile">> -> 5
      [] entry = <<"qInstallMessageHandler(None)">> -> 6
      [] entry = <<"objreg.clear">> -> 7
      [] entry = <<"singleShot exit">> -> 8
      [] OTHER -> 0

\* first was logged, and logged before second.
Precedes(first, second) ==
    /\ InLog(first)
    /\ LogPos(first) < LogPos(second)

\* C16: the steps of the second stage are taken in the order event filter,
\* tabs, persistence, marker, message handler, registry, exit; the registry
\* is cleared after every handler on the to_save list has been called, and
\* the exit is scheduled after the registry has been cleared.
Stage2InOrder ==
    /\ \A m, n \in 1..Len(log) :
          m < n /\ Stage2Rank(log[m]) > 0 /\ Stage2Rank(log[n]) > 0
              => Stage2Rank(log[m]) <= Stage2Rank(log[n])
    /\ InLog(<<"objreg.clear">>) =>
          /\ \A n \in 1..Len(SaveList) :
                Precedes(<<"save", SaveList[n]>>, <<"objreg.clear">>)
          /\ Precedes(<<"_destroy_crashlogfile">>, <<"objreg.clear">>)
          /\ Precedes(<<"qInstallMessageHandler(None)">>, <<"objreg.clear">>)
    /\ InLog(<<"singleShot exit">>) =>
          Precedes(<<"objreg.clear">>, <<"singleShot exit">>)
    /\ Pending("exit") /\ InLog(<<"singleShot exit">>) =>
          \A k \in Keys : objreg_get(registry, k) = NoObj

\* A second stage that removed the event filter, closed the tabs, called
\* seven handlers, one of which failed, and scheduled the exit.
Stage2RanInFull ==
    /\ InLog(<<"removeEventFilter">>)
    /\ InLog(<<"tabbed-browser.shutdown">>)
    /\ Len(SaveList) = 7
    /\ \E h \in Handlers : InLog(<<"Could not save", h>>)
    /\ Pending("exit")

\* ----------------------------------------------------------------- deferral

\* A call of shutdown() passes the latch in this step.
LatchStep == ~shutting_down /\ shutting_down'

\* A modal question is being asked when shutdown() is called.
QuestionActive == objreg_get(registry, "prompter") # NoObj /\ promptActive

\* C17: a call of shutdown() that passes the latch while a question is asked
\* ends the question and takes no step of the second stage, which waits in
\* the run-loop's queue; a call that passes it while none is asked, or
\* without a prompter, takes the second stage to its end, the scheduling of
\* the exit.
Stage2DeferredOrCompleted ==
    [][LatchStep =>
          IF QuestionActive
          THEN /\ stage2Runs' = stage2Runs
               /\ ~InList(<<"_shutdown">>, log')
               /\ ~promptActive'
               /\ queue'[Len(queue')].fn = "_shutdown"
          ELSE /\ stage2Runs' = stage2Runs + 1
               /\ InList(<<"singleShot exit">>, log')]_vars

\* ------------------------------------------------------- close confirmation

\* closeEvent handled a close event in this step.
CloseStep == closeEvents' # closeEvents

\* What it did to the event, and whether it asked the user.
Closing == closeEvents'[Len(closeEvents')]

Asked == prompts' # prompts

\* C18: under 'never' the close event is accepted and nothing is asked;
\* under 'multiple-tabs' that is so exactly when there is at most one tab;
\* under 'always', and under 'multiple-tabs' with two tabs or more, the
\* user is asked once and the event is accepted exactly when the user
\* confirms; an ignored event changes nothing, an accepted one closes the
\* window, upon which shutdown() is called.
CloseAskedAsConfigured ==
    [][CloseStep =>
          /\ confirm_quit = "never" => ~Asked /\ Closing = "accept"
          /\ confirm_quit = "multiple-tabs" =>
                (~Asked /\ Closing = "accept" <=> Len(tabs) <= 1)
          /\ \/ confirm_quit = "always"
             \/ confirm_quit = "multiple-tabs" /\ Len(tabs) >= 2
             => /\ Len(prompts') = Len(prompts) + 1
                /\ prompts'[Len(prompts')].count = Len(tabs)
                /\ Closing = "accept" <=> prompts'[Len(prompts')].confirmed
          /\ Closing = "ignore" => UNCHANGED lifecycleVars
          /\ Closing = "accept" => shutdownCalls' = shutdownCalls + 1]_vars

\* With two tabs the user declined to close; with one tab left the window
\* closed without a question.
DeclinedThenClosed ==
    /\ confirm_quit = "multiple-tabs"
    /\ closeEvents = <<"ignore", "accept">>
    /\ Len(prompts) = 1
    /\ prompts[1].count = 2
    /\ shutting_down

\* ---------------------------------------------------- two-phase notification

\* The download manager did op in this step, with the adapter connected.
ManagerDid(op) ==
    /\ adapter = "connected"
    /\ Len(dlOps') = Len(dlOps) + 1
    /\ dlOps'[Len(dlOps')].op = op

\* The view was told begin for the row of the mutation while the list was
\* as before it, and end when the list had changed by the row.
ToldInTwoPhases(begin, end, change) ==
    LET idx == dlOps'[Len(dlOps')].idx
        n == Len(notifications)
    IN /\ Len(notifications') = n + 2
       /\ SubSeq(notifications', 1, n) = notifications
       /\ notifications'[n + 1] =
              [kind |-> begin, first |-> idx, last |-> idx,
               rows |-> Len(downloads)]
       /\ notifications'[n + 2].kind = end
       /\ notifications'[n + 2].rows = Len(downloads')
       /\ Len(downloads') = Len(downloads) + change

\* How many notifications of a kind are among the first n.
Told(kind, n) ==
    Cardinality({m \in 1..n : notifications[m].kind = kind})

\* Among the first n notifications, no end without its begin.
Matched(begin, end) ==
    \A n \in 0..Len(notifications) :
       /\ Told(end, n) <= Told(begin, n)
       /\ Told(begin, n) <= Told(end, n) + 1

\* C19: the view is told of every insertion by beginInsertRows for the one
\* row before the list changes and by endInsertRows after it, of every
\* removal by beginRemoveRows and endRemoveRows likewise; and it is never
\* told an end without the begin of the same kind before it.
TwoPhaseNotification ==
    /\ [](Matched("beginInsertRows", "endInsertRows"))
    /\ [](Matched("beginRemoveRows", "endRemoveRows"))
    /\ [][ManagerDid("add") =>
              ToldInTwoPhases("beginInsertRows", "endInsertRows", 1)]_vars
    /\ [][ManagerDid("remove") =>
              ToldInTwoPhases("beginRemoveRows", "endRemoveRows", -1)]_vars

\* The view was told of an insertion and then of a removal.
ToldOfAddAndRemove ==
    /\ Len(notifications) = 4
    /\ notifications[1].kind = "beginInsertRows"
    /\ notifications[2].kind = "endInsertRows"
    /\ notifications[2].rows = notifications[1].rows + 1
    /\ notifications[3].kind = "beginRemoveRows"
    /\ notifications[4].kind = "endRemoveRows"
    /\ notifications[4].rows = notifications[3].rows - 1

\* ------------------------------------------------------- benign exceptions

\* What this step added to the log.
NewEntries == SubSeq(log', Len(log) + 1, Len(log'))

\* The hook handled BdbQuit or an exception that is no Exception.
BenignStep == InList(<<"excepthook", "benign">>, NewEntries)

\* A persistence handler was called in this step and raised something the
\* second stage does not catch.
ShutdownRaised ==
    \E h \in Handlers :
       /\ InList(<<"save", h>>, NewEntries)
       /\ h \notin saved'
       /\ ~InList(<<"Could not save", h>>, NewEntries)

\* C20: for BdbQuit or an exception that is no Exception the hook shows no
\* crash dialog and leaves the quit status alone; it calls shutdown() with
\* status 0; it quits the application exactly when that call raises; and it
\* changes nothing when the latch was set already.
BenignExceptionShutsDown ==
    [][BenignStep =>
          /\ crashdlg' = crashdlg
          /\ ~InList(<<"crash dialog">>, NewEntries)
          /\ quit_status' = quit_status
          /\ shutdownCalls' = shutdownCalls + 1
          /\ ~shutting_down => shutting_down' /\ latched' = 0
          /\ InList(<<"quit">>, NewEntries) <=> ShutdownRaised
          /\ ShutdownRaised /\ phase = "running" =>
                /\ phase' = "exited"
                /\ exitVia' = "QApplication.quit"
                /\ exitStatus' = 0
          /\ shutting_down /\ phase = "running" =>
                UNCHANGED ShutdownEffects]_vars

\* The hook got a benign exception, shutdown() raised, and the hook quit the
\* application without a crash dialog.
BenignHookQuit ==
    /\ InLog(<<"excepthook", "benign">>)
    /\ InLog(<<"quit">>)
    /\ exitVia = "QApplication.quit"
    /\ crashdlg.kind = "none"
    /\ ~InLog(<<"crash dialog">>)

\* ----------------------------------------------------------- crash recovery

\* The hook logged that it swallowed the failure what in this step.
Swallowed(what) == InList(<<what>>, SubSeq(log', Len(log) + 1, Len(log')))

\* The addresses of the tabs urls that are not empty, without passwords.
AddressesOf(urls) ==
    SelectSeq([n \in 1..Len(urls) |-> url_toString(urls[n])], HasAddress)

\* The tabs the hook finds: none once the second stage has closed them.
TabsFound ==
    IF InList(<<"tabbed-browser.shutdown">>, log') THEN <<>> ELSE tabs

\* C21: for a genuine exception the hook always shows the crash dialog.  The
\* dialog gets no page when the tabbed browser is not registered or reading
\* its tabs raised, the pages of the tabs that could be read otherwise; no
\* command when the command line is not registered or reading its history
\* raised, the last five commands otherwise; an empty object dump when
\* collecting it raised.  Every failure is logged before the dialog.
CrashDialogAlwaysReached ==
    [][CrashStep =>
          /\ InList(<<"crash dialog">>, log')
          /\ crashdlg'.kind = "ExceptionCrashDialog"
          /\ crashdlg'.pages =
                 IF \/ objreg_get(registry, "tabbed-browser") = NoObj
                    \/ Swallowed("Error while recovering pages")
                 THEN <<>>
                 ELSE IF Swallowed("Error while recovering tab")
                 THEN AddressesOf(Tail(TabsFound))
                 ELSE AddressesOf(TabsFound)
          /\ objreg_get(registry, "status-command") = NoObj =>
                 Swallowed("Error while getting history")
          /\ crashdlg'.history =
                 IF Swallowed("Error while getting history") THEN <<>>
                 ELSE SubSeq(CommandHistory, 2, 6)
          /\ crashdlg'.objects =
                 IF Swallowed("Error while getting objects") THEN ""
                 ELSE ObjectDump
          /\ log'[Len(log')] \in {<<"crash dialog">>, <<"dialog accepted">>,
                                  <<"dialog rejected">>, <<"Popen">>,
                                  <<"Could not remove crash log!">>}]_vars

\* Reading the tabs and collecting the objects raised while two tabs were
\* open: the crash dialog was shown without pages and without object dump,
\* with the last commands.
CrashDialogAfterFailures ==
    /\ InLog(<<"crash dialog">>)
    /\ InLog(<<"Error while recovering pages">>)
    /\ InLog(<<"Error while getting objects">>)
    /\ Len(tabs) = 2
    /\ crashdlg.pages = <<>>
    /\ crashdlg.objects = ""
    /\ crashdlg.history # <<>>

\* ------------------------------------------------------ inside the handlers

\* A signal is delivered in this step to the handler level.
DeliveredTo(level) ==
    /\ signalsSeen' = signalsSeen + 1
    /\ \A sig \in Signals : sigHandler[sig] = level

\* The step leaves alone what the first stage, the second stage and an exit
\* change.
NoShutdownStep ==
    /\ UNCHANGED ShutdownEffects
    /\ shutdownCalls' = shutdownCalls

\* C22: the first- and the second-level handler remap both signals and
\* append one callback to the run-loop's queue (shutdown with 128 + signum,
\* exit with 128 + signum), and nothing of the first stage, of the second
\* stage or of an exit happens in that step; the third-level handler ends
\* the process in its step and enqueues nothing; a step in which the second
\* stage runs does not call QApplication.exit, and when the stage runs to
\* its end it leaves exit as the last callback of the queue;
\* QApplication.exit only ever runs as a callback the run-loop took from the
\* queue, in a step of its own.
HandlersOnlyEnqueue ==
    /\ [][DeliveredTo("interrupt") =>
              /\ sigHandler' = BothRemapped("interrupt_forcefully")
              /\ Len(queue') = Len(queue) + 1
              /\ SubSeq(queue', 1, Len(queue)) = queue
              /\ queue'[Len(queue')].fn = "shutdown"
              /\ queue'[Len(queue')].status \in {128 + SIGINT, 128 + SIGTERM}
              /\ SubSeq(log', Len(log) + 2, Len(log')) = <<<<"interrupt">>>>
              /\ NoShutdownStep]_vars
    /\ [][DeliveredTo("interrupt_forcefully") =>
              /\ sigHandler' = BothRemapped("interrupt_really_forcefully")
              /\ Len(queue') = Len(queue) + 1
              /\ SubSeq(queue', 1, Len(queue)) = queue
              /\ queue'[Len(queue')].fn = "exit"
              /\ queue'[Len(queue')].status \in {128 + SIGINT, 128 + SIGTERM}
              /\ SubSeq(log', Len(log) + 2, Len(log'))
                     = <<<<"interrupt_forcefully">>>>
              /\ NoShutdownStep]_vars
    /\ [][DeliveredTo("interrupt_really_forcefully") =>
              /\ phase' = "exited"
              /\ exitVia' = "sys.exit"
              /\ queue' = queue
              /\ sigHandler' = sigHandler]_vars
    /\ [][stage2Runs' > stage2Runs =>
              /\ ~InList(<<"QApplication.exit">>, log')
              /\ exitVia' \notin {"scheduled exit", "forced exit"}
              /\ InList(<<"singleShot exit">>, log') =>
                     /\ queue' # <<>>
                     /\ queue'[Len(queue')].fn = "exit"]_vars
    /\ [][~InLog(<<"QApplication.exit">>)
              /\ InList(<<"QApplication.exit">>, log') =>
              /\ queue # <<>>
              /\ Head(queue).fn = "exit"
              /\ queue' = Tail(queue)
              /\ stage2Runs' = stage2Runs /\ shutdownCalls' = shutdownCalls]_vars

\* Three signals were delivered: the first two left their callbacks in the
\* queue, the third ended the process before the run-loop ran either.
ThirdSignalEndedProcess ==
    /\ signalsSeen = 3
    /\ InLog(<<"interrupt">>)
    /\ InLog(<<"interrupt_forcefully">>)
    /\ InLog(<<"interrupt_really_forcefully">>)
    /\ Pending("shutdown")
    /\ Pending("exit")
    /\ stage2Runs = 0
    /\ exitVia = "sys.exit"

\* ---------------------------------------------------------------- spawning

\* How often entry was logged in this step.
LoggedNow(entry) ==
    Cardinality({n \in (Len(log) + 1)..Len(log') : log'[n] = entry})

\* The log entry that follows position n (none: the empty tuple).
EntryAfter(n) == IF n < Len(log') THEN log'[n + 1] ELSE <<>>

\* C23: every call of restart that gets as far calls subprocess.Popen once,
\* and a process is started for each call that does not raise.  A Popen
\* that raised is followed by no shutdown: the exception leaves restart.
\* A Popen for the accepted crash dialog (shutdown=False) is followed by no
\* shutdown either.  A Popen for the restart command is followed by the
\* call of shutdown(), which runs the first stage right then unless the
\* latch was set.  A step that begins with the hook calls shutdown() never,
\* and a restart command whose Popen raised neither.
RestartSpawnsThenShutsDown ==
    [][/\ Len(popen') - Len(popen)
             = LoggedNow(<<"Popen">>) + LoggedNow(<<"Popen failed">>)
       /\ spawned' - spawned = LoggedNow(<<"Popen">>)
       /\ \A n \in (Len(log) + 1)..Len(log') :
             /\ log'[n] = <<"Popen failed">> =>
                    EntryAfter(n) \in {<<"excepthook", "genuine">>,
                                       <<"Error in sys.excepthook">>}
             /\ log'[n] = <<"Popen">> /\ log'[n - 1] = <<"dialog accepted">> =>
                    EntryAfter(n) \in {<<>>, <<"Could not remove crash log!">>}
             /\ log'[n] = <<"Popen">> /\ n = Len(log) + 1 =>
                    /\ shutdownCalls' = shutdownCalls + 1
                    /\ shutting_down'
                    /\ ~shutting_down => EntryAfter(n) = <<"shutdown">>
       /\ Len(log') > Len(log) =>
             /\ log'[Len(log) + 1] \in {<<"excepthook", "genuine">>,
                                        <<"Popen failed">>} =>
                    /\ shutdownCalls' = shutdownCalls
                    /\ stage2Runs' = stage2Runs
                    /\ shutting_down' = shutting_down
                    /\ ~InList(<<"shutdown">>, NewEntries)]_vars

\* The restart command could not start the process: no process was started
\* and the process was not shut down; the user rejected the crash dialog
\* about the exception.
SpawnFailedWithoutShutdown ==
    /\ InLog(<<"Popen failed">>)
    /\ InLog(<<"dialog rejected">>)
    /\ Len(popen) = 1
    /\ spawned = 0
    /\ shutdownCalls = 0
    /\ ~shutting_down
    /\ stage2Runs = 0

\* ---------------------------------------------------------------- geometry

\* Application.__init__ constructs the main window in this step.
ConstructsWindow ==
    /\ phase = "init"
    /\ InitSteps[initDone + 1] = "main-window"
    /\ log' # log

\* C24: constructing the main window is never aborted and leaves a geometry
\* set: the default rectangle (50, 50, 800, 600) exactly when nothing is
\* stored, the stored text is no valid base64, or restoreGeometry returned
\* False or raised, and the stored geometry otherwise.
GeometryRestoreNeverAborts ==
    [][ConstructsWindow =>
          /\ initDone' = initDone + 1
          /\ phase' # "exited"
          /\ objreg_get(registry', "main-window") # NoObj
          /\ geometry' \in {QRect(50, 50, 800, 600), SavedGeometry}
          /\ geometry' = QRect(50, 50, 800, 600) <=>
                 \/ stored_geometry = NoStoredGeometry
                 \/ b64decode(stored_geometry).exc # "none"
                 \/ InList(<<"Error while restoring geometry.">>,
                           NewEntries)]_vars

\* ------------------------------------------------------------------------
\* C25: the quit status records which phases of the shutdown finished: the
\* flag 'tabs' is true once the second stage has closed all tabs, and the
\* flag 'main' is true once the second stage has run to its end (it has
\* scheduled the exit), so that the flags tell whether the final saves ran.
QuitStatusRecordsPhases ==
    /\ InLog(<<"tabbed-browser.shutdown">>) => quit_status.tabs
    /\ InLog(<<"singleShot exit">>) => quit_status.main

\* ------------------------------------------------------------------------
\* An argument that is taken for an address.
IsAddressArg(arg) == ~startswith(arg, "-") /\ ~startswith(arg, ":")

\* fuzzy_url accepts the text, or raises.
WellFormed(urlstr) == fuzzy_url(urlstr).exc = "none"

IllFormed(urlstr) == ~WellFormed(urlstr)

\* The tabs the loop over urlstrs opens, and the messages it shows.
OpenedFor(urlstrs) ==
    LET good == SelectSeq(urlstrs, WellFormed)
    IN [n \in 1..Len(good) |-> fuzzy_url(good[n]).url]

ErrorsFor(urlstrs, what) ==
    LET bad == SelectSeq(urlstrs, IllFormed)
    IN [n \in 1..Len(bad) |-> <<"message.error", what, bad[n].text>>]

IsErrorMessage(entry) == entry[1] = "message.error"

\* The run-loop calls _process_init_args in this step, the tabbed browser
\* being registered.
RunsProcessInitArgs ==
    /\ phase = "running"
    /\ queue # <<>>
    /\ Head(queue).fn = "_process_init_args"
    /\ objreg_get(registry, "tabbed-browser") # NoObj
    /\ Len(log') > Len(log)
    /\ NewEntries[1] = <<"run", "_process_init_args", Head(queue).by>>

\* C26: processing the positional arguments never aborts the start-up on a
\* malformed address.  When _process_init_args runs with the tabbed browser
\* registered, the process keeps running and no crash dialog comes up; each
\* malformed argument gives exactly one error message, in the order of the
\* arguments, and every well-formed address, the ones after a malformed one
\* included, is opened in a tab, in order; the start pages are opened
\* exactly when there is no tab after the arguments, each malformed start
\* page giving only an error message.
MalformedArgumentNeverAborts ==
    [][RunsProcessInitArgs =>
          LET given == SelectSeq(Tail(argv), IsAddressArg)
              byArgs == tabs \o OpenedFor(given)
              argErrors == ErrorsFor(given, "Error in startup argument")
          IN /\ phase' = "running"
             /\ crashdlg' = crashdlg
             /\ queue' = Tail(queue)
             /\ \E pages \in StartPageLists :
                   IF byArgs = <<>>
                   THEN /\ tabs' = OpenedFor(pages)
                        /\ SelectSeq(NewEntries, IsErrorMessage) =
                               argErrors \o
                               ErrorsFor(pages,
                                         "Error when opening startpage")
                   ELSE /\ tabs' = byArgs
                        /\ SelectSeq(NewEntries, IsErrorMessage) =
                               argErrors]_vars

\* An argument after a malformed one was opened in a tab.
ArgumentAfterMalformedOpened ==
    /\ argv = <<Launcher, UrlX, MalformedUrl, BareAddress>>
    /\ tabs = <<UrlX, HttpAddress>>
    /\ InLog(<<"message.error", "Error in startup argument",
               MalformedUrl.text>>)
    /\ phase = "running"

\* ------------------------------------------------------------------------
\* The level of a handler: 0 for Python's default, 1 for interrupt
\* (graceful), 2 for interrupt_forcefully (forced), 3 for
\* interrupt_really_forcefully (immediate).
Level(handler) ==
    CASE handler = "interrupt" -> 1
      [] handler = "interrupt_forcefully" -> 2
      [] handler = "interrupt_really_forcefully" -> 3
      [] OTHER -> 0

HandlerAt(level) ==
    CASE level = 1 -> "interrupt"
      [] level = 2 -> "interrupt_forcefully"
      [] OTHER -> "interrupt_really_forcefully"

\* The signal sig is delivered in this step to the handlers the program
\* installed.
Escalates(sig) ==
    /\ signalsSeen' = signalsSeen + 1
    /\ NewEntries[1] = <<"signal", SigName(sig)>>
    /\ Level(sigHandler[sig]) > 0

\* C29: the escalation level is shared by SIGINT and SIGTERM and monotone.
\* Both signals have the same handler at all times and no step lowers its
\* level; the n-th signal delivered to the program's handlers, whichever of
\* the two it is, is handled at level n: at levels 1 and 2 it moves both
\* signals to the next level and schedules shutdown (level 1) or exit
\* (level 2) with the status 128 + the number of that signal, at level 3 the
\* process ends at once with 128 + the number of that signal.
SignalEscalationShared ==
    /\ [](sigHandler[SIGINT] = sigHandler[SIGTERM])
    /\ [][\A sig \in Signals :
             Level(sigHandler'[sig]) >= Level(sigHandler[sig])]_vars
    /\ [][\A sig \in Signals :
             Escalates(sig) =>
                LET n == signalsSeen'
                IN /\ Level(sigHandler[sig]) = n
                   /\ NewEntries[2] = <<HandlerAt(n)>>
                   /\ n < 3 =>
                         /\ sigHandler' = BothRemapped(HandlerAt(n + 1))
                         /\ queue' =
                               Append(queue,
                                      [fn |-> IF n = 1 THEN "shutdown"
                                              ELSE "exit",
                                       status |-> 128 + sig,
                                       by |-> HandlerAt(n)])
                         /\ phase' = phase
                   /\ n = 3 =>
                         /\ phase' = "exited"
                         /\ exitVia' = "sys.exit"
                         /\ exitStatus' = 128 + sig
                         /\ sigHandler' = sigHandler]_vars

\* An interrupt was followed by a terminate signal, which was handled at the
\* second level: the forced exit with 128 + 15 is scheduled behind the
\* shutdown with 128 + 2, and both signals are at the third level.
TerminateAfterInterruptForced ==
    /\ signalsSeen = 2
    /\ Before(<<"signal", "SIGINT">>, <<"signal", "SIGTERM">>)
    /\ sigHandler = BothRemapped("interrupt_really_forcefully")
    /\ \E m, n \in 1..Len(queue) :
          /\ m < n
          /\ queue[m] = [fn |-> "shutdown", status |-> 128 + SIGINT,
                         by |-> "interrupt"]
          /\ queue[n] = [fn |-> "exit", status |-> 128 + SIGTERM,
                         by |-> "interrupt_forcefully"]

\* -------------------------------------------------------------------- runs

\* The marker is there and empty, and no live instance has a handle on it.
StaleMarker ==
    /\ marker = ""
    /\ ~otherOwner
    /\ phase = "exited" \/ crashlogfile # "open"

\* The last run that ended.
LastRun == runs[Len(runs)]

\* C28: an empty marker that no live instance owns is never removed by the
\* program.  No step of the program ends that state: the start-up that
\* finds it takes no handle, leaves the file alone and leaves faulthandler
\* away from the file, and no run, however it ends, removes the file; so
\* every run after one that left the marker empty found it empty (when it
\* got as far as looking), never had a handle and left it empty again.
StaleMarkerNeverRemoved ==
    /\ [][StaleMarker => StaleMarker']_vars
    /\ [][StaleMarker /\ HandlesSegfault =>
              /\ found' = "empty"
              /\ crashlogfile' = "none"
              /\ faultTarget' # "file"
              /\ fileOps' = {"read"}]_vars
    /\ [](\A k \in 1..Len(runs) :
             runs[k].left = "" =>
                /\ \A j \in (k + 1)..Len(runs) :
                      /\ runs[j].found \in {"unchecked", "empty"}
                      /\ runs[j].handle = "none"
                      /\ runs[j].left = ""
                /\ found \in {"unchecked", "empty"}
                /\ crashlogfile = "none"
                /\ faultTarget # "file"
                /\ marker = "")

\* The first run created the marker and ended with it in place; the second
\* run and the third found it empty, and the third has ended too.
StaleMarkerFoundTwice ==
    /\ Len(runs) = 2
    /\ runs[1].found = "absent"
    /\ runs[1].handle = "open"
    /\ runs[1].left = ""
    /\ runs[2].found = "empty"
    /\ found = "empty"
    /\ phase = "exited"
    /\ marker = ""

\* The start-up found fault data and could not remove the file.
Undeleted == found = "data" /\ crashlogfile = "none"

\* C30: when os.remove fails with PermissionError for a marker with fault
\* data, the start-up goes on and shows the dialog about the previous crash
\* with that data, but starts no new log file: the instance has no handle,
\* faulthandler does not write to the file, and for the rest of the run the
\* file keeps its content; the next run finds that content and shows it
\* again.
UndeletableCrashLogReportedAgain ==
    /\ [][HandlesSegfault /\ marker \in CrashData
            /\ "remove-failed" \in fileOps' =>
              /\ phase' = "init"
              /\ crashdlg' = [kind |-> "FatalCrashDialog", data |-> marker]
              /\ Undeleted'
              /\ marker' = marker
              /\ faultTarget' # "file"
              /\ "create" \notin fileOps']_vars
    /\ [][Undeleted /\ marker \in CrashData =>
              /\ marker' = marker
              /\ runs' = runs =>
                    /\ Undeleted'
                    /\ faultTarget' # "file"
                    /\ fileOps' \subseteq {"read", "remove-failed"}]_vars
    /\ [][HandlesSegfault /\ runs # <<>> /\ LastRun.found = "data"
            /\ LastRun.handle = "none" =>
              /\ found' = "data"
              /\ crashdlg' = [kind |-> "FatalCrashDialog",
                              data |-> LastRun.left]]_vars

\* Two runs in a row showed the dialog for the same fault data.
SameCrashReportedTwice ==
    /\ runs # <<>>
    /\ LastRun = [found |-> "data", handle |-> "none", left |-> OtherFault]
    /\ found = "data"
    /\ crashdlg = [kind |-> "FatalCrashDialog", data |-> OtherFault]
    /\ phase = "running"

\* ---------------------------------------------------------------- relaunch

\* The tracked process started by subprocess.Popen.
Child == relaunched[1]

\* The tracked process runs its _handle_segfault in this step.
ChildChecks ==
    /\ relaunched' # <<>>
    /\ relaunched'[1].found # "unchecked"
    /\ relaunched = <<>> \/ relaunched[1].found = "unchecked"

\* The old instance has the handle on its marker: its clean-up is still to
\* come.
OldHoldsMarker == crashlogfile = "open" /\ phase # "exited"

\* The old instance removed its marker in its clean-up: it has closed its
\* handle and removed a file, and the file is gone.
OldDeletedMarker ==
    /\ crashlogfile = "closed"
    /\ "remove" \in fileOps
    /\ marker = Absent

\* The tracked process gets a marker of its own in this step.
ChildTakesMarker == ChildChecks /\ relaunched'[1].crashlogfile = "open"

\* A handler that starts the new process and releases the marker does so in
\* that order.
SpawnsBeforeCleanup ==
    \A m, n \in (Len(log) + 1)..Len(log') :
        log'[m] = <<"Popen">> /\ log'[n] = <<"_destroy_crashlogfile">> =>
            m < n

\* The instance that looks at the marker while the old one holds it finds
\* it empty and takes no handle.
EarlyCheckIsStale ==
    ChildChecks /\ OldHoldsMarker =>
        /\ relaunched'[1].found = "empty"
        /\ relaunched'[1].crashlogfile = "none"

\* An instance that found the marker empty has no handle and no fault
\* capture to the file, up to its end.
StaleForLife ==
    relaunched # <<>> /\ Child.found = "empty" =>
        /\ Child.crashlogfile = "none"
        /\ Child.faultTarget # "file"
        /\ Child.fileOps = {"read"}

\* C27, as stated: the new process is started before the old one releases
\* its marker; the relaunched instance that looks at the marker while the
\* old one holds it finds it empty and has no persistent fault capture for
\* its whole life; it has a marker of its own only if the old instance
\* deleted its marker first.
RelaunchOwnsMarkerOnlyAfterDeletion ==
    /\ [][SpawnsBeforeCleanup]_vars
    /\ [][EarlyCheckIsStale]_vars
    /\ []StaleForLife
    /\ [][ChildTakesMarker => OldDeletedMarker]_vars

\* C27, amended: as above, but the relaunched instance has a marker of its
\* own only if it found none, the old instance having deleted its marker
\* first, or if it found fault data, the old instance having faulted before
\* its clean-up.
RelaunchRacesOnMarker ==
    /\ [][SpawnsBeforeCleanup]_vars
    /\ [][EarlyCheckIsStale]_vars
    /\ []StaleForLife
    /\ [][ChildTakesMarker =>
              \/ relaunched'[1].found = "absent" /\ OldDeletedMarker
              \/ /\ relaunched'[1].found = "data"
                 /\ marker = OwnFault
                 /\ exitVia = "fault"
                 /\ crashlogfile = "open"]_vars

\* The relaunched instance looked at the marker before the old one deleted
\* it, and has ended without ever having had a marker.
RelaunchedLostTheRace ==
    /\ relaunched # <<>>
    /\ Child.found = "empty"
    /\ Child.phase = "exited"
    /\ OldDeletedMarker
    /\ phase = "exited"

\* -------------------------------------------------------------- the latch

\* The entries of a log that only the second stage writes.
Stage2Heads ==
    {"_shutdown", "removeEventFilter", "tabbed-browser.shutdown", "to_save",
     "save", "Could not save", "_destroy_crashlogfile",
     "qInstallMessageHandler(None)", "objreg.clear", "singleShot exit"}

IsStage2Entry(entry) == Head(entry) \in Stage2Heads

Stage2Steps(l) == SelectSeq(l, IsStage2Entry)

\* The second stage was entered and left by an exception: it never
\* scheduled the exit.
Stage2Aborted == InLog(<<"_shutdown">>) /\ ~InLog(<<"singleShot exit">>)

\* shutdown() is called in this step, and finds the latch set.
LatchedCall == shutting_down /\ shutdownCalls' > shutdownCalls

\* C31: the latch, once set, stays set, whether the second stage was
\* deferred, ran to its end or was left by an exception; a call of
\* shutdown() that finds it set takes no step of the second stage, also the
\* call the first-level signal handler scheduled; and a second stage that
\* was left by an exception is never entered again.
ShutdownLatchMonotone ==
    /\ [][shutting_down => shutting_down']_vars
    /\ [][LatchedCall =>
              /\ stage2Runs' = stage2Runs
              /\ saved' = saved
              /\ Stage2Steps(log') = Stage2Steps(log)]_vars
    /\ [][Stage2Aborted =>
              /\ stage2Runs' = stage2Runs
              /\ saved' = saved
              /\ Stage2Steps(log') = Stage2Steps(log)
              /\ shutting_down']_vars

\* The second stage was left by an exception, the process went on, and the
\* run-loop then made the call of shutdown() that a first-level signal
\* scheduled.
AbortedStage2NotRetried ==
    /\ Stage2Aborted
    /\ shutting_down
    /\ phase = "running"
    /\ stage2Runs = 1
    /\ LogPos(<<"_shutdown">>) < LogPos(<<"run", "shutdown", "interrupt">>)

====
